---------------------------- MODULE Spec2Model ----------------------------
(***************************************************************************)
(* A model of waypp, a C++ wrapper around the Wayland client protocol.     *)
(*                                                                         *)
(*   SeatSpec : Seat objects under wl_seat capabilities / name events      *)
(*              (src/seat/seat.cc).                                        *)
(*   Spec     : the life of one WindowManager: construction (Window base   *)
(*              constructor, XdgWm, the configure-wait loop), event        *)
(*              dispatch, create_window, destruction                       *)
(*              (window.cc, window_manager.cc, xdg_wm.cc).                 *)
(*   XdgSpec  : the XdgWm handshake alone, from the state right after the  *)
(*              XdgWm constructor, with the full range of toplevel inputs. *)
(*   DispatchSpec : WindowManager::dispatch against the display connection *)
(*              (its event queue, its sticky error state, flush and poll). *)
(*   EglSpec  : one Egl object: construction, the four make-current        *)
(*              operations, destruction (egl.cc).                          *)
(*   CursorSpec : one Cursor object: construction and Cursor::enable       *)
(*              (cursor.cc).                                               *)
(*   DisplaySpec : the Display registry: globals announced in any order,   *)
(*              registrar callbacks, destruction (display.cc).             *)
(*   KeyboardSpec, KeyboardFairSpec : one Keyboard and its key-repeat      *)
(*              timers on the GLib main loop (seat.cc, keyboard.h).        *)
(*   OutputSpec : one Output under wl_output events (output.cc).           *)
(*   CtorFairSpec : Spec's constructor with the wait loop scheduled        *)
(*              fairly (window_manager.cc).                                *)
(*                                                                         *)
(* Every step records in `event` the event or operation it handled and in  *)
(* `calls` the native calls (and draw-callback invocations) it made, in    *)
(* order.  A null pointer is 0; objects are positive integers.             *)
(***************************************************************************)
EXTENDS Integers, Sequences, FiniteSets, TLC

VARIABLES
    \* ---- Seat (seat.h) ----
    seats,          \* seat id -> [capabilities_, name_, pointer_, keyboard_, touch_]
    delivered,      \* seat id -> last capability mask the server delivered (-1: none yet)
    liveHandlers,   \* the Pointer / Keyboard / Touch objects constructed and not destroyed
    \* ---- WindowManager : Display, Window (window.h, window_manager.h) ----
    pc,             \* where the thread that owns the WindowManager is
    shell_type_,    \* Window::shell_type_
    wl_surface_,    \* Window::wl_surface_
    wl_callback_,   \* Window::wl_callback_
    windows_,       \* WindowManager::windows_
    xdg,            \* *WindowManager::xdg_wm_ (xdg.exists = FALSE: the unique_ptr is null)
    result,         \* value returned by the last create_window (0: nullptr, -1: it threw)
    \* ---- the native side ----
    cbAlive,        \* wl_callback proxies requested and not yet destroyed
    staleDestroy,   \* TRUE once wl_callback_destroy was called on a proxy that is not alive
    displayError,   \* the display connection is in its (sticky) error state
    event,          \* the event or operation handled by the last step
    calls,          \* the native calls made by the last step, in order
    toplevel_states,\* the state array the last handle_toplevel_configure walked
    \* ---- the display connection (libwayland-client) ----
    queued,         \* events read from the socket and waiting in the default queue
    \* ---- Egl (egl.h) ----
    egl,            \* the Egl object: [state, dpy_, config_, context_, resource_context_,
                    \*                  texture_context_, egl_surface_]
    eglCurrent,     \* the EGL context current on the thread (eglGetCurrentContext)
    \* ---- Cursor (cursor.h) ----
    cursor,         \* the Cursor object: [state, enable_, wl_pointer_, wl_surface_, theme_]
                    \* and, in images, what the loaded theme holds for each cursor name
    \* ---- Display (display.h) ----
    display,        \* the Display object: [state, wl_display_, wl_registry_, wl_compositor_,
                    \*                      wl_subcompositor_, wl_shm_, wl_outputs_, wl_seats_]
    callbacks_,     \* Display::callbacks_: the registered registrar observers, in order
    handles,        \* the native handles the Display acquired and has not released
    notified,       \* one entry per global the registry announced, in order:
                    \* [name, observers invoked for it]
    \* ---- Keyboard (keyboard.h) and the GLib main context ----
    keyboards,      \* seat id -> the members of the seat's Keyboard:
                    \* [key_timeout_id_, key_repeat_rate_]
    timers,         \* the timeout sources attached to the main context:
                    \* [id, interval, data; stale: the Keyboard data points to was destroyed]
    nextSource,     \* the id the next g_timeout_add returns
    \* ---- Output (output.h) ----
    output          \* Output::output_: [geometry, mode, done, scale, name, description]

seatVars == <<seats, delivered, liveHandlers>>
wmVars   == <<pc, shell_type_, wl_surface_, wl_callback_, windows_, xdg, result,
              cbAlive, staleDestroy, displayError, event, calls>>
\* the WindowManager without the record of the last step
wmState  == <<pc, shell_type_, wl_surface_, wl_callback_, windows_, xdg, result,
              cbAlive, staleDestroy>>
ioVars   == <<queued>>
eglVars  == <<egl, eglCurrent>>
cursorVars == <<cursor>>
displayVars == <<display, callbacks_, handles, notified>>
kbVars   == <<keyboards, timers, nextSource>>
outputVars == <<output>>
\* what neither the Seat nor the WindowManager steps touch
extVars  == <<ioVars, eglVars, cursorVars, displayVars, kbVars, outputVars>>
\* extVars without one component
exceptIo     == <<eglVars, cursorVars, displayVars, kbVars, outputVars>>
exceptEgl    == <<ioVars, cursorVars, displayVars, kbVars, outputVars>>
exceptCursor == <<ioVars, eglVars, displayVars, kbVars, outputVars>>
exceptDisplay == <<ioVars, eglVars, cursorVars, kbVars, outputVars>>
exceptKb     == <<ioVars, eglVars, cursorVars, displayVars, outputVars>>
exceptOutput == <<ioVars, eglVars, cursorVars, displayVars, kbVars>>
vars     == <<seats, delivered, liveHandlers,
              pc, shell_type_, wl_surface_, wl_callback_, windows_, xdg, result,
              cbAlive, staleDestroy, displayError, event, calls,
              toplevel_states, queued, egl, eglCurrent, cursor,
              display, callbacks_, handles, notified,
              keyboards, timers, nextSource, output>>

\* ------------------------------------------------------------------ bounds
NumSeats     == 1   \* seats in the Display's seat map
MaxCallbacks == 2   \* wl_callback proxy addresses the allocator hands out
MaxSerial    == 2   \* serials the server uses
MaxTime      == 2   \* frame timestamps (ms) the server uses
MaxWindows   == 2   \* create_window calls that construct a window
MaxStates    == 2   \* entries of a toplevel-configure state array

\* ------------------------------------------------------------------ helpers
Min(a, b) == IF a <= b THEN a ELSE b

\* how many calls of fn the call trace s holds
RECURSIVE CountCalls(_, _)
CountCalls(s, fn) ==
    IF s = <<>> THEN 0
    ELSE (IF Head(s)[1] = fn THEN 1 ELSE 0) + CountCalls(Tail(s), fn)

\* index of the first call of fn in s (0: none)
FirstCall(s, fn) ==
    IF \E i \in 1..Len(s) : s[i][1] = fn
    THEN CHOOSE i \in 1..Len(s) : s[i][1] = fn /\ \A j \in 1..(i - 1) : s[j][1] # fn
    ELSE 0

NoEvent == [type |-> "none", a |-> 0, b |-> 0]

\* ==================================================================== Seat
WL_SEAT_CAPABILITY_POINTER  == 1
WL_SEAT_CAPABILITY_KEYBOARD == 2
WL_SEAT_CAPABILITY_TOUCH    == 4

SeatIds   == 1..NumSeats
\* capability masks the server sends: every combination of the three defined
\* bits, and a mask with an undefined bit
CapMasks  == 0..8
SeatNames == {"seat0", "seat1"}

\* caps & bit
HasCap(caps, bit) == (caps \div bit) % 2 = 1

\* Seat::Seat: capabilities_(), no handler, empty name
NewSeat == [capabilities_ |-> 0, name_ |-> "", pointer_ |-> 0, keyboard_ |-> 0, touch_ |-> 0]

\* std::make_unique<...>: a fresh object, distinct from every live one
NewHandler(live) == CHOOSE id \in 1..(Cardinality(live) + 1) : id \notin live

\* One capability's if / else-if of Seat::handle_capabilities, without the
\* `&& !obj->pointer_` test: a handler is constructed whenever the bit is set.
UpdateHandlerNoNullTest(has, cur, live) ==
    IF has THEN NewHandler(live) ELSE 0

\* One capability's if / else-if of Seat::handle_capabilities: the new value of
\* the unique_ptr (cur), given whether the capability bit is set.
UpdateHandler(has, cur, live) ==
    IF has /\ cur = 0 THEN NewHandler(live)
    ELSE IF ~has /\ cur # 0 THEN 0
    ELSE cur

\* The live objects after a unique_ptr went from old to new: the new object is
\* constructed first, then the old one (if replaced or reset) is destroyed.
LiveAfter(live, old, new) ==
    IF new = old THEN live ELSE (live \cup ({new} \ {0})) \ {old}

\* Keyboard::Keyboard: the members keyboard.h initialises
KeyboardNew == [key_timeout_id_ |-> 0, key_repeat_rate_ |-> 0]

\* Keyboard::~Keyboard of the object at address k: it removes no timeout
\* source, so every source whose data is k is left pointing to a destroyed object
KeyboardDestroyed(ts, k) ==
    {IF t.data = k THEN [t EXCEPT !.stale = TRUE] ELSE t : t \in ts}

\* Seat::handle_capabilities
handle_capabilities(s, caps) ==
    LET obj   == seats[s]
        p     == UpdateHandler(HasCap(caps, WL_SEAT_CAPABILITY_POINTER), obj.pointer_, liveHandlers)
        live1 == LiveAfter(liveHandlers, obj.pointer_, p)
        k     == UpdateHandler(HasCap(caps, WL_SEAT_CAPABILITY_KEYBOARD), obj.keyboard_, live1)
        live2 == LiveAfter(live1, obj.keyboard_, k)
        t     == UpdateHandler(HasCap(caps, WL_SEAT_CAPABILITY_TOUCH), obj.touch_, live2)
        live3 == LiveAfter(live2, obj.touch_, t)
    IN  /\ seats' = [seats EXCEPT ![s] = [@ EXCEPT !.capabilities_ = caps,
                                                   !.pointer_ = p,
                                                   !.keyboard_ = k,
                                                   !.touch_ = t]]
        /\ liveHandlers' = live3
        /\ delivered' = [delivered EXCEPT ![s] = caps]
        /\ keyboards' = [keyboards EXCEPT ![s] = IF k # obj.keyboard_ THEN KeyboardNew ELSE @]
        /\ timers' = IF k # obj.keyboard_ /\ obj.keyboard_ # 0
                      THEN KeyboardDestroyed(timers, obj.keyboard_) ELSE timers
        /\ UNCHANGED nextSource
        /\ UNCHANGED <<wmVars, toplevel_states, exceptKb>>

\* Seat::handle_name
handle_name(s, name) ==
    /\ seats' = [seats EXCEPT ![s].name_ = name]
    /\ UNCHANGED <<delivered, liveHandlers>>
    /\ UNCHANGED <<wmVars, toplevel_states, extVars>>

SeatInit ==
    /\ seats = [s \in SeatIds |-> NewSeat]
    /\ delivered = [s \in SeatIds |-> -1]
    /\ liveHandlers = {}
    /\ keyboards = [s \in SeatIds |-> KeyboardNew]
    /\ timers = {}
    /\ nextSource = 1

\* ================================================================== Window
\* The Window part of the state as one value, threaded through the methods.
WindowState == [wl_callback_ |-> wl_callback_, cbAlive |-> cbAlive,
                calls |-> <<>>, stale |-> staleDestroy, fresh |-> TRUE]

Call(w, c) == [w EXCEPT !.calls = Append(@, c)]

\* wl_callback_destroy(cb): on a proxy that is not alive it is a use after free
wl_callback_destroy(w, cb) ==
    [Call(w, <<"wl_callback_destroy", cb>>) EXCEPT
        !.cbAlive = @ \ {cb},
        !.stale = @ \/ (cb \notin w.cbAlive)]

\* the draw callback of the WindowManager's Window base is the "base draw" lambda
draw_callback_ == TRUE

\* The function Window::draw_callback_ holds: Window::Window stores the lambda
\* WindowManager's constructor passes, and nothing assigns the member later.
\* (Functions are numbered: 0 is nullptr, 1 the function a caller of
\* create_window supplies, see DrawCallbacks.)
base_draw == 2

\* the function a call of a step's trace invokes (0: the call invokes none)
InvokedDraw(c) == IF c[1] = "draw_callback_" THEN base_draw ELSE 0

\* Window::stop_frames (the member wl_callback_ is left as it is)
stop_frames(w) ==
    IF w.wl_callback_ # 0 THEN wl_callback_destroy(w, w.wl_callback_) ELSE w

\* Window::on_frame, lines 86-90, without the wl_callback_destroy of the fired callback
ReleaseFiredNoDestroy(w, callback) == [w EXCEPT !.wl_callback_ = 0]

\* Window::on_frame, lines 86-90: forget the member, release the fired callback
ReleaseFired(w, callback) ==
    LET w1 == [w EXCEPT !.wl_callback_ = 0]
    IN  IF callback # 0 THEN wl_callback_destroy(w1, callback) ELSE w1

\* Window::on_frame with the new frame callback requested before the draw
on_frame_request_first(w, callback, time, newcb) ==
    LET w2 == ReleaseFired(w, callback)
        w3 == [w2 EXCEPT !.wl_callback_ = newcb,
                         !.cbAlive = @ \cup {newcb},
                         !.fresh = @ /\ newcb \notin w2.cbAlive,
                         !.calls = @ \o << <<"wl_surface_frame", newcb>>,
                                           <<"wl_callback_add_listener", newcb>> >>]
        w4 == IF draw_callback_ THEN Call(w3, <<"draw_callback_", time>>) ELSE w3
    IN  Call(w4, <<"wl_surface_commit", wl_surface_>>)

\* Window::on_frame; newcb is the proxy wl_surface_frame returns
on_frame(w, callback, time, newcb) ==
    LET w2 == ReleaseFired(w, callback)
        w3 == IF draw_callback_ THEN Call(w2, <<"draw_callback_", time>>) ELSE w2
        w4 == [w3 EXCEPT !.wl_callback_ = newcb,
                         !.cbAlive = @ \cup {newcb},
                         !.fresh = @ /\ newcb \notin w3.cbAlive,
                         !.calls = @ \o << <<"wl_surface_frame", newcb>>,
                                           <<"wl_callback_add_listener", newcb>>,
                                           <<"wl_surface_commit", wl_surface_>> >>]
    IN  w4

\* Window::start_frames without its stop_frames call
start_frames_no_stop(w, newcb) == on_frame(w, 0, 0, newcb)

\* Window::start_frames
start_frames(w, newcb) == on_frame(stop_frames(w), 0, 0, newcb)

CallbackIds == 1..MaxCallbacks

\* write a WindowState back to the variables
SetWindow(w, pre) ==
    /\ w.fresh
    /\ wl_callback_' = w.wl_callback_
    /\ cbAlive' = w.cbAlive
    /\ staleDestroy' = w.stale
    /\ calls' = pre \o w.calls

\* =================================================================== XdgWm
XDG_TOPLEVEL_STATE_MAXIMIZED  == 1
XDG_TOPLEVEL_STATE_FULLSCREEN == 2
XDG_TOPLEVEL_STATE_RESIZING   == 3
XDG_TOPLEVEL_STATE_ACTIVATED  == 4
\* a state value the switch has no case for
UnknownState == XDG_TOPLEVEL_STATE_ACTIVATED + 1

XdgNull == [exists |-> FALSE,
            wl_registry_ |-> 0, xdg_wm_base_ |-> 0, xdg_surface_ |-> 0, xdg_toplevel_ |-> 0,
            wait_for_configure_ |-> FALSE,
            fullscreen_ |-> FALSE, maximized_ |-> FALSE, resize_ |-> FALSE,
            activated_ |-> FALSE, running_ |-> FALSE,
            geometry_ |-> [width |-> 0, height |-> 0],
            window_size_ |-> [width |-> 0, height |-> 0]]

\* XdgWm::XdgWm
XdgWmNew == [XdgNull EXCEPT !.exists = TRUE, !.wl_registry_ = 1,
                            !.wait_for_configure_ = TRUE]

\* XdgWm::get_wait_for_configure, always answering false
get_wait_for_configure_false == FALSE

\* XdgWm::get_wait_for_configure
get_wait_for_configure == xdg.wait_for_configure_

\* XdgWm::registry_handle_global for the xdg_wm_base interface
BindShell(x) == [x EXCEPT !.xdg_wm_base_ = 1, !.xdg_surface_ = 1, !.xdg_toplevel_ = 1]

BindShellCalls(version) ==
    << <<"wl_registry_bind", Min(3, version)>>,
       <<"xdg_wm_base_add_listener", 1>>,
       <<"xdg_wm_base_get_xdg_surface", wl_surface_>>,
       <<"xdg_surface_add_listener", 1>>,
       <<"xdg_surface_get_toplevel", 1>>,
       <<"xdg_toplevel_add_listener", 1>>,
       <<"xdg_toplevel_set_title", 1>>,
       <<"xdg_toplevel_set_app_id", 1>>,
       <<"wl_surface_commit", wl_surface_>> >>

\* XdgWm::xdg_wm_base_ping answering with no pong
PingCallsNoPong(serial) == <<>>

\* XdgWm::xdg_wm_base_ping: the requests it sends
PingCalls(serial) == << <<"xdg_wm_base_pong", serial>> >>

\* XdgWm::handle_xdg_surface_configure: the requests it sends
SurfaceConfigureCalls(serial) == << <<"xdg_surface_ack_configure", serial>> >>

\* handle_xdg_surface_configure that leaves wait_for_configure_ set
SurfaceConfigureKeepsWait(x) == x

\* XdgWm::handle_xdg_surface_configure: the object afterwards
SurfaceConfigure(x) == [x EXCEPT !.wait_for_configure_ = FALSE]

\* the test of line 187 with && in place of ||
DefersToClientBoth(width, height) == width = 0 /\ height = 0

\* XdgWm::handle_toplevel_configure, line 187: the compositor defers to the client
DefersToClient(width, height) == width = 0 \/ height = 0

InArray(states, v) == \E i \in DOMAIN states : states[i] = v

\* handle_toplevel_configure without the reset of lines 194-197
ResetFlagsNone(x) == x

\* XdgWm::handle_toplevel_configure, lines 194-197
ResetFlags(x) ==
    [x EXCEPT !.fullscreen_ = FALSE, !.maximized_ = FALSE,
              !.resize_ = FALSE, !.activated_ = FALSE]

\* the switch of lines 201-218 on one entry of the state array
ApplyState(x, state) ==
    CASE state = XDG_TOPLEVEL_STATE_FULLSCREEN -> [x EXCEPT !.fullscreen_ = TRUE]
      [] state = XDG_TOPLEVEL_STATE_MAXIMIZED  -> [x EXCEPT !.maximized_ = TRUE]
      [] state = XDG_TOPLEVEL_STATE_RESIZING   -> [x EXCEPT !.resize_ = TRUE]
      [] state = XDG_TOPLEVEL_STATE_ACTIVATED  -> [x EXCEPT !.activated_ = TRUE]
      [] OTHER -> x

\* WL_ARRAY_FOR_EACH over the state array, lines 199-219
RECURSIVE ApplyStates(_, _)
ApplyStates(x, states) ==
    IF states = <<>> THEN x
    ELSE ApplyStates(ApplyState(x, Head(states)), Tail(states))

\* XdgWm::handle_toplevel_configure, lines 194-219: the flags from the state array
SetFlags(x, states) == ApplyStates(ResetFlags(x), states)

\* lines 221-232 with the nominal size overwritten whenever neither fullscreen
\* nor maximized is set, and the geometry reset whenever the size is not positive
SetGeometryAlwaysReset(w, width, height) ==
    LET size == [width |-> width, height |-> height]
        w1   == IF ~w.fullscreen_ /\ ~w.maximized_ THEN [w EXCEPT !.window_size_ = size] ELSE w
    IN  [w1 EXCEPT !.geometry_ = IF width > 0 /\ height > 0 THEN size ELSE w1.window_size_]

\* XdgWm::handle_toplevel_configure, lines 221-232
SetGeometry(w, width, height) ==
    LET size == [width |-> width, height |-> height]
    IN  IF width > 0 /\ height > 0
        THEN [w EXCEPT !.window_size_ = IF ~w.fullscreen_ /\ ~w.maximized_ THEN size ELSE @,
                       !.geometry_ = size]
        ELSE IF ~w.fullscreen_ /\ ~w.maximized_
             THEN [w EXCEPT !.geometry_ = w.window_size_]
             ELSE w

\* handle_toplevel_configure that also ends the wait for the surface configure
ToplevelConfigureClearsWait(x, width, height, states) ==
    IF DefersToClient(width, height) THEN x
    ELSE [SetGeometry(SetFlags(x, states), width, height) EXCEPT !.wait_for_configure_ = FALSE]

\* XdgWm::handle_toplevel_configure
ToplevelConfigure(x, width, height, states) ==
    IF DefersToClient(width, height) THEN x
    ELSE SetGeometry(SetFlags(x, states), width, height)

\* XdgWm::handle_toplevel_close
ToplevelClose(x) == [x EXCEPT !.running_ = FALSE]

\* ========================================================== WindowManager
ShellTypes == {"AGL", "IVI", "XDG", "NONE"}

\* WindowManager::WindowType
EGL    == 0
VULKAN == 1
WindowTypes == {EGL, VULKAN}

Serials  == 1..MaxSerial
Times    == 1..MaxTime
Versions == {1, 6}
\* what the registry advertises to XdgWm's listener
Interfaces == {"xdg_wm_base", "wl_compositor"}

\* toplevel-configure inputs: widths and heights, and state arrays (each set of
\* at most MaxStates of the five state values, as an array in ascending order)
Dims        == {0 - 1, 0, 1, 2}
StateValues == {XDG_TOPLEVEL_STATE_MAXIMIZED, XDG_TOPLEVEL_STATE_FULLSCREEN,
                XDG_TOPLEVEL_STATE_RESIZING, XDG_TOPLEVEL_STATE_ACTIVATED,
                UnknownState}
RECURSIVE SortedSeq(_)
SortedSeq(S) ==
    IF S = {} THEN <<>>
    ELSE LET m == CHOOSE x \in S : \A y \in S : x <= y
         IN  <<m>> \o SortedSeq(S \ {m})
StateArrays == {SortedSeq(S) : S \in {T \in SUBSET StateValues : Cardinality(T) <= MaxStates}}
\* the toplevel-configure inputs used while the whole life cycle is explored
CoarseDims        == {0, 1}
CoarseStateArrays == {<<>>, <<XDG_TOPLEVEL_STATE_FULLSCREEN>>}

\* create_window inputs
WinDims       == {1, 2}
DrawCallbacks == {0, 1}

\* the thread is inside wl_display_dispatch (constructor) or dispatch / poll_events
Dispatching == pc \in {"wait_loop", "constructed"} /\ ~displayError

UnchangedWindow == UNCHANGED <<wl_callback_, cbAlive, staleDestroy>>

\* ---- construction -------------------------------------------------------
\* Window::Window, run as a base-class constructor of WindowManager
WindowCtor(newcb) ==
    /\ pc = "Window"
    /\ wl_surface_' = 1
    /\ SetWindow(start_frames(WindowState, newcb), << <<"wl_compositor_create_surface", 1>> >>)
    /\ pc' = IF shell_type_ = "XDG" THEN "XdgWm" ELSE "start_frames"
    /\ event' = [type |-> "Window::Window", a |-> 0, b |-> 0]
    /\ UNCHANGED <<shell_type_, windows_, xdg, result, displayError>>
    /\ UNCHANGED <<seatVars, toplevel_states, extVars>>

\* WindowManager::WindowManager, line 46: std::make_unique<XdgWm>
XdgWmCtor ==
    /\ pc = "XdgWm"
    /\ xdg' = XdgWmNew
    /\ calls' = << <<"wl_display_get_registry", 1>>, <<"wl_registry_add_listener", 1>> >>
    /\ pc' = "wait_loop"
    /\ event' = [type |-> "XdgWm::XdgWm", a |-> 0, b |-> 0]
    /\ UnchangedWindow
    /\ UNCHANGED <<shell_type_, wl_surface_, windows_, result, displayError>>
    /\ UNCHANGED <<seatVars, toplevel_states, extVars>>

\* WindowManager::WindowManager, lines 51-58: the loop test finds the flag clear
WaitLoopExit ==
    /\ pc = "wait_loop"
    /\ ~get_wait_for_configure
    /\ pc' = "start_frames"
    /\ event' = [type |-> "configured", a |-> 0, b |-> 0]
    /\ calls' = <<>>
    /\ UnchangedWindow
    /\ UNCHANGED <<shell_type_, wl_surface_, windows_, xdg, result, displayError>>
    /\ UNCHANGED <<seatVars, toplevel_states, extVars>>

\* WindowManager::WindowManager, line 61: start_frames(), then the constructor returns
CtorStartFrames(newcb) ==
    /\ pc = "start_frames"
    /\ SetWindow(start_frames(WindowState, newcb), <<>>)
    /\ pc' = "constructed"
    /\ event' = [type |-> "WindowManager::WindowManager", a |-> 0, b |-> 0]
    /\ UNCHANGED <<shell_type_, wl_surface_, windows_, xdg, result, displayError>>
    /\ UNCHANGED <<seatVars, toplevel_states, extVars>>

\* ---- events -------------------------------------------------------------
\* wl_display_dispatch fails: the connection is broken from now on
DispatchFails ==
    /\ pc \in {"wait_loop", "constructed"}
    /\ ~displayError
    /\ displayError' = TRUE
    /\ event' = [type |-> "dispatch failed", a |-> 0, b |-> 0]
    /\ calls' = <<>>
    /\ UnchangedWindow
    /\ UNCHANGED <<pc, shell_type_, wl_surface_, windows_, xdg, result>>
    /\ UNCHANGED <<seatVars, toplevel_states, extVars>>

\* XdgWm::registry_handle_global; the server advertises xdg_wm_base at most once
RegistryGlobal(interface, version) ==
    /\ Dispatching
    /\ xdg.exists /\ xdg.wl_registry_ # 0
    /\ interface = "xdg_wm_base" => xdg.xdg_wm_base_ = 0
    /\ IF interface = "xdg_wm_base"
       THEN /\ xdg' = BindShell(xdg)
            /\ calls' = BindShellCalls(version)
            /\ event' = [type |-> "wl_registry.global xdg_wm_base", a |-> version, b |-> 0]
       ELSE /\ xdg' = xdg
            /\ calls' = <<>>
            /\ event' = [type |-> "wl_registry.global", a |-> version, b |-> 0]
    /\ UnchangedWindow
    /\ UNCHANGED <<pc, shell_type_, wl_surface_, windows_, result, displayError>>
    /\ UNCHANGED <<seatVars, toplevel_states, extVars>>

\* XdgWm::xdg_wm_base_ping
Ping(serial) ==
    /\ Dispatching
    /\ xdg.exists /\ xdg.xdg_wm_base_ # 0
    /\ calls' = PingCalls(serial)
    /\ event' = [type |-> "xdg_wm_base.ping", a |-> serial, b |-> 0]
    /\ UnchangedWindow
    /\ UNCHANGED <<pc, shell_type_, wl_surface_, windows_, xdg, result, displayError>>
    /\ UNCHANGED <<seatVars, toplevel_states, extVars>>

\* XdgWm::handle_xdg_surface_configure
handle_xdg_surface_configure(serial) ==
    /\ Dispatching
    /\ xdg.exists /\ xdg.xdg_surface_ # 0
    /\ xdg' = SurfaceConfigure(xdg)
    /\ calls' = SurfaceConfigureCalls(serial)
    /\ event' = [type |-> "xdg_surface.configure", a |-> serial, b |-> 0]
    /\ UnchangedWindow
    /\ UNCHANGED <<pc, shell_type_, wl_surface_, windows_, result, displayError>>
    /\ UNCHANGED <<seatVars, toplevel_states, extVars>>

\* XdgWm::handle_toplevel_configure
handle_toplevel_configure(width, height, states) ==
    /\ Dispatching
    /\ xdg.exists /\ xdg.xdg_toplevel_ # 0
    /\ xdg' = ToplevelConfigure(xdg, width, height, states)
    /\ toplevel_states' = IF DefersToClient(width, height) THEN toplevel_states ELSE states
    /\ calls' = <<>>
    /\ event' = [type |-> "xdg_toplevel.configure", a |-> width, b |-> height]
    /\ UnchangedWindow
    /\ UNCHANGED <<pc, shell_type_, wl_surface_, windows_, result, displayError>>
    /\ UNCHANGED <<seatVars, extVars>>

\* XdgWm::handle_toplevel_close
handle_toplevel_close ==
    /\ Dispatching
    /\ xdg.exists /\ xdg.xdg_toplevel_ # 0
    /\ xdg' = ToplevelClose(xdg)
    /\ calls' = <<>>
    /\ event' = [type |-> "xdg_toplevel.close", a |-> 0, b |-> 0]
    /\ UnchangedWindow
    /\ UNCHANGED <<pc, shell_type_, wl_surface_, windows_, result, displayError>>
    /\ UNCHANGED <<seatVars, toplevel_states, extVars>>

\* wl_callback.done of a live frame callback, handled by Window::on_frame
FrameDone(callback, time, newcb) ==
    /\ Dispatching
    /\ callback \in cbAlive
    /\ SetWindow(on_frame(WindowState, callback, time, newcb), <<>>)
    /\ event' = [type |-> "wl_callback.done", a |-> callback, b |-> time]
    /\ UNCHANGED <<pc, shell_type_, wl_surface_, windows_, xdg, result, displayError>>
    /\ UNCHANGED <<seatVars, toplevel_states, extVars>>

\* ---- create_window ------------------------------------------------------
\* std::list::emplace_front in place of emplace_back
EmplaceFront(list, w) == <<w>> \o list

\* WindowManager::create_window, line 138: windows_.emplace_back
EmplaceBack(list, w) == Append(list, w)

\* WindowEgl::WindowEgl: the window object (raw pointer id) on the surface it is given
NewWindowEgl(id, surface, width, height) ==
    [id |-> id, surface |-> surface, width |-> width, height |-> height]

WindowEglCalls(surface, width) ==
    << <<"Egl::Egl", 1>>, <<"wl_egl_window_create", surface>>, <<"eglCreateWindowSurface", 1>> >>

\* WindowManager::create_window.  eglOk = FALSE: Egl::Egl throws std::runtime_error,
\* which leaves create_window before anything is stored or restarted.
create_window(width, height, window_type, draw_callback, eglOk, newcb) ==
    /\ pc = "constructed"
    /\ Len(windows_) < MaxWindows
    /\ event' = [type |-> "create_window", a |-> window_type, b |-> draw_callback]
    /\ IF window_type = EGL /\ ~eglOk
       THEN /\ result' = 0 - 1
            /\ calls' = << <<"Egl::Egl throws", 1>> >>
            /\ UnchangedWindow
            /\ UNCHANGED windows_
       ELSE LET id     == Len(windows_) + 1
                window == IF window_type = EGL
                          THEN NewWindowEgl(id, wl_surface_, width, height)
                          ELSE [id |-> 0]
                pre    == IF window_type = EGL
                          THEN WindowEglCalls(wl_surface_, width)
                          ELSE <<>>
            IN  /\ windows_' = IF window.id # 0 THEN EmplaceBack(windows_, window)
                                                ELSE windows_
                /\ result' = window.id
                /\ SetWindow(start_frames(WindowState, newcb), pre)
    /\ UNCHANGED <<pc, shell_type_, wl_surface_, xdg, displayError>>
    /\ UNCHANGED <<seatVars, toplevel_states, extVars>>

\* ================================================================= Display
MaxGlobals   == 3   \* globals the registry announces to one Display

\* the interfaces a server announces: the five the Display binds and one it ignores
DisplayInterfaces ==
    {"wl_compositor", "wl_subcompositor", "wl_shm", "wl_output", "wl_seat", "xdg_wm_base"}
\* the versions a server announces an interface with: below and above the
\* version the Display asks for where the two differ
AnnouncedVersions(interface) ==
    CASE interface = "wl_output" -> {1, 4}
      [] interface = "wl_seat" -> {1, 9}
      [] OTHER -> {6}
\* the registrar observers (callback, data) an application has; it registers
\* each of them at most once
ObserverIds == {1, 2}

\* a Display not constructed yet
DisplayNull ==
    [state |-> "none", wl_display_ |-> 0, wl_registry_ |-> 0, wl_compositor_ |-> 0,
     wl_subcompositor_ |-> 0, wl_shm_ |-> 0, wl_outputs_ |-> {}, wl_seats_ |-> {}]

\* wl_registry_bind(registry, name, interface, min(ceiling, version)); the proxy
\* it returns is identified by the global's name
Bind(r, kind, name, ceiling, version) ==
    [Call(r, <<"wl_registry_bind", Min(ceiling, version)>>)
        EXCEPT !.acquired = @ \cup {<<kind, name>>}]

\* the branches of Display::registry_handle_global, up to the observers' loop
HandleGlobal(d, name, interface, version) ==
    LET r == [d |-> d, calls |-> <<>>, acquired |-> {}]
    IN  CASE interface = "wl_compositor" ->
                [Bind(r, interface, name, 1, version) EXCEPT !.d.wl_compositor_ = name]
          [] interface = "wl_subcompositor" ->
                [Bind(r, interface, name, 1, version) EXCEPT !.d.wl_subcompositor_ = name]
          [] interface = "wl_shm" ->
                Call([Bind(r, interface, name, 1, version) EXCEPT !.d.wl_shm_ = name],
                     <<"wl_shm_add_listener", name>>)
          [] interface = "wl_output" ->
                \* Output::Output
                Call([Bind(r, interface, name, 2, version) EXCEPT !.d.wl_outputs_ =
                        @ \cup {[wl_output_ |-> name, version_ |-> version]}],
                     <<"wl_output_add_listener", name>>)
          [] interface = "wl_seat" ->
                \* Seat::Seat, given the shm and the compositor bound so far
                Call([Bind(r, interface, name, 5, version) EXCEPT !.d.wl_seats_ =
                        @ \cup {[wl_seat_ |-> name, wl_shm_ |-> d.wl_shm_,
                                 wl_compositor_ |-> d.wl_compositor_,
                                 version_ |-> version]}],
                     <<"wl_seat_add_listener", name>>)
          [] OTHER -> r

\* the observers' loop of registry_handle_global, least index first
NotifyObserversReversed(cbs) ==
    [i \in 1..Len(cbs) |-> <<"callback", cbs[Len(cbs) + 1 - i]>>]
NotifyObservers(cbs) ==
    [i \in 1..Len(cbs) |-> <<"callback", cbs[i]>>]

\* the observers a sequence of calls invoked, in order
RECURSIVE ObserversIn(_)
ObserversIn(cs) ==
    IF cs = <<>> THEN <<>>
    ELSE IF Head(cs)[1] = "callback" THEN <<Head(cs)[2]>> \o ObserversIn(Tail(cs))
    ELSE ObserversIn(Tail(cs))

\* Display::Display up to its wl_display_roundtrip; a failed connect ends the process
DisplayCtor(ok) ==
    /\ display.state = "none"
    /\ IF ok
       THEN /\ display' = [display EXCEPT !.state = "roundtrip", !.wl_display_ = 1,
                                          !.wl_registry_ = 1]
            /\ handles' = {<<"wl_display", 1>>, <<"wl_registry", 1>>}
            /\ calls' = << <<"wl_display_connect", 1>>, <<"wl_display_get_registry", 1>>,
                           <<"wl_registry_add_listener", 1>>, <<"wl_display_roundtrip", 1>> >>
       ELSE /\ display' = [display EXCEPT !.state = "exited"]
            /\ handles' = handles
            /\ calls' = << <<"wl_display_connect", 0>>, <<"exit", 1>> >>
    /\ event' = [type |-> "Display::Display", a |-> 0, b |-> IF ok THEN 1 ELSE 0]
    /\ UNCHANGED <<callbacks_, notified>>
    /\ UNCHANGED <<wmState, displayError, toplevel_states>>
    /\ UNCHANGED <<seatVars, exceptDisplay>>

\* wl_display_roundtrip returns and with it Display::Display
RoundtripDone ==
    /\ display.state = "roundtrip"
    /\ display' = [display EXCEPT !.state = "constructed"]
    /\ calls' = <<>>
    /\ event' = [type |-> "Display::Display returns", a |-> 0, b |-> 0]
    /\ UNCHANGED <<callbacks_, handles, notified>>
    /\ UNCHANGED <<wmState, displayError, toplevel_states>>
    /\ UNCHANGED <<seatVars, exceptDisplay>>

\* the singleton a global of this interface would replace (0: none, or not a singleton)
BoundSingleton(d, interface) ==
    CASE interface = "wl_compositor" -> d.wl_compositor_
      [] interface = "wl_subcompositor" -> d.wl_subcompositor_
      [] interface = "wl_shm" -> d.wl_shm_
      [] OTHER -> 0

\* Display::registry_handle_global: wl_registry.global, delivered by the
\* constructor's round trip or by a later dispatch.  The server names its
\* globals 1, 2, ... and announces each singleton interface once.
registry_handle_global(interface, version) ==
    /\ display.state \in {"roundtrip", "constructed"}
    /\ Len(notified) < MaxGlobals
    /\ BoundSingleton(display, interface) = 0
    /\ LET name == Len(notified) + 1
           r    == HandleGlobal(display, name, interface, version)
           cs   == r.calls \o NotifyObservers(callbacks_)
       IN  /\ display' = r.d
           /\ handles' = handles \cup r.acquired
           /\ calls' = cs
           /\ notified' = Append(notified, [name |-> name, observers |-> ObserversIn(cs)])
           /\ event' = [type |-> "Display::registry_handle_global", a |-> name, b |-> version]
    /\ UNCHANGED callbacks_
    /\ UNCHANGED <<wmState, displayError, toplevel_states>>
    /\ UNCHANGED <<seatVars, exceptDisplay>>

\* Display::add_registrar_callback
add_registrar_callback(callback) ==
    /\ display.state = "constructed"
    /\ \A i \in DOMAIN callbacks_ : callbacks_[i] # callback
    /\ callbacks_' = Append(callbacks_, callback)
    /\ calls' = <<>>
    /\ event' = [type |-> "Display::add_registrar_callback", a |-> callback, b |-> 0]
    /\ UNCHANGED <<display, handles, notified>>
    /\ UNCHANGED <<wmState, displayError, toplevel_states>>
    /\ UNCHANGED <<seatVars, exceptDisplay>>

\* Output::~Output for every entry of a wl_outputs_ map, least pointer first.
\* wl_output_release destroys the proxy and wl_output_destroy destroys it again:
\* where the process aborts on that, the first Output's destructor ends it.
RECURSIVE DestroyOutputs(_, _, _)
DestroyOutputs(r, outputs, aborts) ==
    IF outputs = {} THEN r
    ELSE LET o == CHOOSE x \in outputs : \A y \in outputs : x.wl_output_ <= y.wl_output_
             released == Call(Call(r, <<"wl_output_release", o.wl_output_>>),
                              <<"wl_output_destroy", o.wl_output_>>)
             after    == [released EXCEPT !.released = @ \cup {<<"wl_output", o.wl_output_>>}]
         IN  IF aborts THEN [after EXCEPT !.aborted = TRUE]
             ELSE DestroyOutputs(after, outputs \ {o}, aborts)

\* wl_<kind>_destroy(p) if p is not null
DestroyIf(r, kind, p) ==
    IF p = 0 THEN r
    ELSE [Call(r, <<"wl_" \o kind \o "_destroy", p>>)
            EXCEPT !.released = @ \cup {<<IF kind = "registry" THEN "wl_registry"
                                          ELSE "wl_" \o kind, p>>}]

\* Display::~Display, then the destructors of its members: callbacks_, the
\* seats (Seat has no destructor of its own) and the outputs
DestroyDisplay(d, aborts) ==
    LET r0 == [calls |-> <<>>, released |-> {}, aborted |-> FALSE]
        r1 == DestroyIf(r0, "registry", d.wl_registry_)
        r2 == DestroyIf(r1, "shm", d.wl_shm_)
        r3 == DestroyIf(r2, "subcompositor", d.wl_subcompositor_)
        r4 == DestroyIf(r3, "compositor", d.wl_compositor_)
    IN  DestroyOutputs(r4, d.wl_outputs_, aborts)

\* the Display after DestroyDisplay
Destroyed(d, r) ==
    [d EXCEPT !.state = IF r.aborted THEN "aborted" ELSE "destroyed"]

\* the destructor of a Display that is not the base of a WindowManager
DisplayDtor(aborts) ==
    /\ display.state = "constructed"
    /\ aborts => display.wl_outputs_ # {}
    /\ LET r == DestroyDisplay(display, aborts)
       IN  /\ display' = Destroyed(display, r)
           /\ handles' = handles \ r.released
           /\ calls' = r.calls
    /\ callbacks_' = <<>>
    /\ event' = [type |-> "Display::~Display", a |-> 0, b |-> 0]
    /\ UNCHANGED notified
    /\ UNCHANGED <<wmState, displayError, toplevel_states>>
    /\ UNCHANGED <<seatVars, exceptDisplay>>

\* the Display of a WindowManager whose construction has reached Window::Window:
\* the round trip announced a compositor, a shm and the seats; no observer yet
BaseDisplay ==
    [DisplayNull EXCEPT !.state = "constructed", !.wl_display_ = 1, !.wl_registry_ = 1,
                        !.wl_compositor_ = 1, !.wl_shm_ = 2,
                        !.wl_seats_ = {[wl_seat_ |-> 2 + s, wl_shm_ |-> 2,
                                        wl_compositor_ |-> 1, version_ |-> 6] : s \in SeatIds}]
BaseHandles ==
    {<<"wl_display", 1>>, <<"wl_registry", 1>>, <<"wl_compositor", 1>>, <<"wl_shm", 2>>}
        \cup {<<"wl_seat", 2 + s>> : s \in SeatIds}
BaseNotified ==
    [n \in 1..(2 + NumSeats) |-> [name |-> n, observers |-> <<>>]]

\* ============================================== WindowManager: destruction
\* WindowManager::~WindowManager
DtorWindowManager ==
    /\ pc = "constructed"
    /\ SetWindow(stop_frames(WindowState), <<>>)
    /\ pc' = "~members"
    /\ event' = [type |-> "WindowManager::~WindowManager", a |-> 0, b |-> 0]
    /\ UNCHANGED <<shell_type_, wl_surface_, windows_, xdg, result, displayError>>
    /\ UNCHANGED <<seatVars, toplevel_states, extVars>>

\* the members of WindowManager go: xdg_wm_ (XdgWm::~XdgWm), then windows_
DtorMembers ==
    /\ pc = "~members"
    /\ xdg' = XdgNull
    /\ windows_' = <<>>
    /\ calls' = <<>>
    /\ pc' = "~Window"
    /\ event' = [type |-> "~members", a |-> 0, b |-> 0]
    /\ UnchangedWindow
    /\ UNCHANGED <<shell_type_, wl_surface_, result, displayError>>
    /\ UNCHANGED <<seatVars, toplevel_states, extVars>>

\* Window::~Window.  A wl_callback_destroy of a dead proxy is undefined behaviour:
\* the process aborts or carries on.
DtorWindow(aborts) ==
    /\ pc = "~Window"
    /\ LET w == stop_frames(WindowState)
       IN  /\ SetWindow(w, <<>>)
           /\ aborts => w.stale
           /\ pc' = IF aborts THEN "aborted" ELSE "~Display"
    /\ event' = [type |-> "Window::~Window", a |-> 0, b |-> 0]
    /\ UNCHANGED <<shell_type_, wl_surface_, windows_, xdg, result, displayError>>
    /\ UNCHANGED <<seatVars, toplevel_states, extVars>>

\* Display::~Display
DtorDisplay(aborts) ==
    /\ pc = "~Display"
    /\ aborts => display.wl_outputs_ # {}
    /\ LET r == DestroyDisplay(display, aborts)
       IN  /\ display' = Destroyed(display, r)
           /\ handles' = handles \ r.released
           /\ calls' = r.calls
           /\ pc' = IF r.aborted THEN "aborted" ELSE "destroyed"
    /\ callbacks_' = <<>>
    /\ event' = [type |-> "Display::~Display", a |-> 0, b |-> 0]
    /\ UnchangedWindow
    /\ UNCHANGED notified
    /\ UNCHANGED <<shell_type_, wl_surface_, windows_, xdg, result, displayError>>
    /\ UNCHANGED <<seatVars, toplevel_states, exceptDisplay>>

\* ================================================== WindowManager::dispatch
\* The display connection as libwayland-client keeps it: `queued` events wait
\* in the default queue, and a fatal error is sticky (displayError): from then
\* on wl_display_flush and wl_display_dispatch_pending fail.  The handlers
\* wl_display_dispatch_pending runs are the event steps above; here only their
\* number counts.
MaxQueue == 2   \* events one read of the socket queues

EAGAIN  == 11
EPIPE   == 32
EINTR   == 4
EPROTO  == 71
POLLIN  == 1
POLLHUP == 16

Timeouts      == {0 - 1, 0, 1}
\* errno of a failing wl_display_flush (0: it succeeds); EPROTO stands for the
\* errno of a fatal error
FlushOutcomes == {0, EAGAIN, EPIPE, EPROTO}
\* poll: timed out, readable, hung up, both, interrupted
PollOutcomes  == {[ret |-> 0, revents |-> 0, errno |-> 0],
                  [ret |-> 1, revents |-> POLLIN, errno |-> 0],
                  [ret |-> 1, revents |-> POLLHUP, errno |-> 0],
                  [ret |-> 1, revents |-> POLLIN + POLLHUP, errno |-> 0],
                  [ret |-> 0 - 1, revents |-> 0, errno |-> EINTR]}
\* wl_display_read_events: the number of events it queues (-1: it fails, fatally)
ReadOutcomes  == (0 - 1)..MaxQueue
\* a fatal protocol error met while the queued events are dispatched: the number
\* of events it leaves in the queue (-1: no such error)
ProtOutcomes  == (0 - 1)..(MaxQueue - 1)

\* the locals of one dispatch call and the connection it works on
DispatchState == [dispatch_count |-> 0, queued |-> queued, err |-> displayError,
                  calls |-> <<>>, spins |-> FALSE, ret |-> 0]

\* wl_display_dispatch_pending, its result added to dispatch_count
dispatch_pending(d, prot) ==
    LET r == IF d.err THEN 0 - 1
             ELSE IF prot >= 0 /\ prot < d.queued THEN 0 - 1
             ELSE d.queued
    IN  [d EXCEPT !.dispatch_count = @ + r,
                  !.queued = IF d.err THEN @
                             ELSE IF prot >= 0 /\ prot < d.queued THEN prot
                             ELSE 0,
                  !.err = @ \/ (prot >= 0 /\ prot < d.queued),
                  !.calls = Append(@, <<"wl_display_dispatch_pending", r>>)]

\* WindowManager::dispatch, lines 175-176: while (wl_display_prepare_read != 0)
\* dispatch_count += wl_display_dispatch_pending.  prepare_read fails exactly
\* while the queue holds events; with events left behind a fatal error the loop
\* never ends (spins).
PrepareRead(d, prot) ==
    IF d.queued = 0
    THEN Call(d, <<"wl_display_prepare_read", 0>>)
    ELSE LET d1 == dispatch_pending(Call(d, <<"wl_display_prepare_read", 0 - 1>>), prot)
         IN  IF d1.queued = 0
             THEN Call(d1, <<"wl_display_prepare_read", 0>>)
             ELSE [d1 EXCEPT !.spins = TRUE]

\* the test of line 178 without its errno != EAGAIN
FlushFailedAny(fl) == fl # 0

\* WindowManager::dispatch, line 178: wl_display_flush(...) < 0 && errno != EAGAIN
FlushFailed(fl) == fl # 0 /\ fl # EAGAIN

\* wl_display_flush with outcome fl: a failure other than EAGAIN and EPIPE is fatal
Flush(d, fl) ==
    [Call(d, <<"wl_display_flush", 0 - fl>>) EXCEPT !.err = @ \/ (fl \notin {0, EAGAIN, EPIPE})]

\* wl_display_read_events with outcome rd
ReadEvents(d, rd) ==
    IF rd < 0
    THEN [Call(d, <<"wl_display_read_events", 0 - 1>>) EXCEPT !.err = TRUE]
    ELSE [Call(d, <<"wl_display_read_events", 0>>) EXCEPT !.queued = @ + rd]

\* a return path that does not give up the read intention
CancelReadNone(d) == d

CancelRead(d) == Call(d, <<"wl_display_cancel_read", 0>>)

\* what poll reported, as one number: -errno, 0 (timed out) or revents
PollResult(po) == IF po.ret < 0 THEN 0 - po.errno ELSE IF po.ret = 0 THEN 0 ELSE po.revents

\* WindowManager::dispatch, lines 183-202: poll and what follows it
Poll(d, timeout, po, rd, prot) ==
    LET d1 == Call(Call(d, <<"wl_display_get_fd", 0>>), <<"poll", PollResult(po)>>)
    IN  IF po.ret > 0
        THEN IF HasCap(po.revents, POLLIN)
             THEN LET d2 == dispatch_pending(ReadEvents(d1, rd), prot)
                  IN  [d2 EXCEPT !.ret = d2.dispatch_count]
             ELSE [CancelRead(d1) EXCEPT !.ret = d1.dispatch_count]
        ELSE IF po.ret = 0
             THEN [CancelRead(d1) EXCEPT !.ret = d1.dispatch_count]
             ELSE [CancelRead(d1) EXCEPT !.ret = 0 - po.errno]

\* WindowManager::dispatch as a function of what the native calls answer
Dispatch(timeout, prot, fl, po, rd) ==
    LET d0 == Call(DispatchState, <<"g_main_context_iteration", 0>>)
        d1 == PrepareRead(d0, prot)
        d2 == Flush(d1, fl)
    IN  IF d1.spins THEN d1
        ELSE IF FlushFailed(fl) THEN [CancelRead(d2) EXCEPT !.ret = 0 - fl]
        ELSE Poll(d2, timeout, po, rd, IF d1.err THEN 0 - 1 ELSE prot)

\* WindowManager::dispatch.  What the native calls can answer depends on the
\* connection: once it is in its error state wl_display_flush fails with the
\* errno of the fatal error; a poll without time limit does not time out.
dispatch(timeout, prot, fl, po, rd) ==
    /\ pc = "constructed"
    /\ LET d1 == PrepareRead(DispatchState, prot)
       IN  /\ d1.err => fl = EPROTO
           /\ (timeout < 0 => po.ret # 0)
    /\ LET d == Dispatch(timeout, prot, fl, po, rd)
       IN  /\ queued' = d.queued
           /\ displayError' = d.err
           /\ calls' = d.calls
           /\ pc' = IF d.spins THEN "spinning" ELSE pc
           /\ event' = IF d.spins THEN [type |-> "dispatch spins", a |-> timeout, b |-> 0]
                                  ELSE [type |-> "dispatch", a |-> timeout, b |-> d.ret]
    /\ UNCHANGED <<shell_type_, wl_surface_, wl_callback_, windows_, xdg, result,
                   cbAlive, staleDestroy, toplevel_states>>
    /\ UNCHANGED <<seatVars, exceptIo>>

\* WindowManager::poll_events as a function of what the native calls answer:
\* the timeout is not used, nothing polls, the result is that of the last
\* wl_display_dispatch_pending
PollEvents(prot, fl, rd) ==
    LET d1 == PrepareRead(DispatchState, prot)
        d2 == Flush(d1, fl)
        d3 == ReadEvents(d2, rd)
        d4 == dispatch_pending([d3 EXCEPT !.dispatch_count = 0],
                               IF d1.err THEN 0 - 1 ELSE prot)
    IN  IF d1.spins THEN d1 ELSE [d4 EXCEPT !.ret = d4.dispatch_count]

\* WindowManager::poll_events.  On a connection in its error state
\* wl_display_flush fails with the errno of the fatal error and
\* wl_display_read_events fails.
poll_events(timeout, prot, fl, rd) ==
    /\ pc = "constructed"
    /\ LET d1 == PrepareRead(DispatchState, prot)
           d2 == Flush(d1, fl)
       IN  /\ d1.err => fl = EPROTO
           /\ d2.err => rd = 0 - 1
    /\ LET d == PollEvents(prot, fl, rd)
       IN  /\ queued' = d.queued
           /\ displayError' = d.err
           /\ calls' = d.calls
           /\ pc' = IF d.spins THEN "spinning" ELSE pc
           /\ event' = IF d.spins THEN [type |-> "poll_events spins", a |-> timeout, b |-> 0]
                                  ELSE [type |-> "poll_events", a |-> timeout, b |-> d.ret]
    /\ UNCHANGED <<shell_type_, wl_surface_, wl_callback_, windows_, xdg, result,
                   cbAlive, staleDestroy, toplevel_states>>
    /\ UNCHANGED <<seatVars, exceptIo>>

\* Another event queue of the connection is dispatched (the EGL platform's own
\* queue, inside an EGL call): the read it does queues n events for the
\* default queue as well.
OtherQueueRead(n) ==
    /\ pc = "constructed"
    /\ ~displayError
    /\ queued + n <= MaxQueue
    /\ queued' = queued + n
    /\ event' = [type |-> "other queue read", a |-> n, b |-> 0]
    /\ calls' = <<>>
    /\ UNCHANGED <<wmState, displayError, toplevel_states>>
    /\ UNCHANGED <<seatVars, exceptIo>>

\* ===================================================================== Egl
EGL_NO_CONTEXT == 0
MaxConfigs     == 2    \* configs eglChooseConfig returns

\* Egl::buffer_size_
buffer_size_ == 24
\* EGL_BUFFER_SIZE of a config: below, at and above buffer_size_
BufferSizes  == {buffer_size_ - 8, buffer_size_, buffer_size_ + 8}
\* the config lists eglChooseConfig can return, as their buffer sizes
ConfigLists  == UNION {[1..n -> BufferSizes] : n \in 0..MaxConfigs}

\* no Egl object (state "none"); "threw": the constructor left by an exception
EglNull == [state |-> "none", dpy_ |-> 0, config_ |-> 0, context_ |-> 0,
            resource_context_ |-> 0, texture_context_ |-> 0, egl_surface_ |-> 0]

\* the thread's EGL state while a method runs: the current context, the calls made
EglThread == [current |-> eglCurrent, calls |-> <<>>]

\* eglMakeCurrent(dpy_, surface, surface, ctx); ok: the implementation accepts it
eglMakeCurrent(t, ctx, ok) ==
    [Call(t, <<"eglMakeCurrent", ctx>>) EXCEPT !.current = IF ok THEN ctx ELSE @]

\* Egl::make_current
MakeCurrent(t, e, ok) ==
    IF t.current # e.context_ THEN eglMakeCurrent(t, e.context_, ok) ELSE t

\* Egl::clear_current
ClearCurrent(t, e, ok) ==
    IF t.current # EGL_NO_CONTEXT THEN eglMakeCurrent(t, EGL_NO_CONTEXT, ok) ELSE t

\* Egl::make_resource_current (the test of line 180 is against context_)
MakeResourceCurrent(t, e, ok) ==
    IF t.current # e.context_ THEN eglMakeCurrent(t, e.resource_context_, ok) ELSE t

\* Egl::make_texture_current
MakeTextureCurrent(t, e, ok) ==
    IF t.current # e.texture_context_ THEN eglMakeCurrent(t, e.texture_context_, ok) ELSE t

\* Egl::Egl, lines 58-68: the first config whose buffer size reaches
\* buffer_size_; failAt is the config at which eglGetConfigAttrib fails (0: none).
\* The result is the config chosen (its index), 0 if none, -1 for the exception.
RECURSIVE SelectConfig(_, _, _)
SelectConfig(sizes, i, failAt) ==
    IF i > Len(sizes) THEN 0
    ELSE IF i = failAt THEN 0 - 1
    ELSE IF buffer_size_ <= sizes[i] THEN i
    ELSE SelectConfig(sizes, i + 1, failAt)

\* eglCreateContext: the new context (id), EGL_NO_CONTEXT when it fails
eglCreateContext(id, ok) == IF ok THEN id ELSE EGL_NO_CONTEXT

\* Egl::Egl.  init, bind, getConfigs, choose: the EGLBoolean each call returns;
\* sizes, failAt: the configs chosen and eglGetConfigAttrib's failure; ctx: for
\* each of the three eglCreateContext calls whether it succeeds; mk: whether
\* the eglMakeCurrent calls of make_current / clear_current succeed.
EglCtor(init, bind, getConfigs, choose, sizes, failAt, ctx, mk) ==
    /\ egl.state = "none"
    /\ LET cfg   == SelectConfig(sizes, 1, failAt)
           threw == ~init \/ ~bind \/ ~getConfigs \/ ~choose \/ cfg < 0
           e     == [EglNull EXCEPT !.state = "constructed",
                                    !.dpy_ = 1,
                                    !.config_ = cfg,
                                    !.context_ = eglCreateContext(1, ctx[1]),
                                    !.resource_context_ = eglCreateContext(2, ctx[2]),
                                    !.texture_context_ = eglCreateContext(3, ctx[3])]
           t     == ClearCurrent(MakeCurrent(EglThread, e, mk), e, mk)
       IN  IF threw
           THEN /\ egl' = [EglNull EXCEPT !.state = "threw"]
                /\ eglCurrent' = eglCurrent
                /\ calls' = << <<"throw", 0>> >>
                /\ event' = [type |-> "Egl::Egl", a |-> 0, b |-> 0]
           ELSE /\ egl' = e
                /\ eglCurrent' = t.current
                /\ calls' = << <<"eglCreateContext", e.context_>>,
                               <<"eglCreateContext", e.resource_context_>>,
                               <<"eglCreateContext", e.texture_context_>> >> \o t.calls
                /\ event' = [type |-> "Egl::Egl", a |-> 1, b |-> 0]
    /\ UNCHANGED <<wmState, displayError, toplevel_states>>
    /\ UNCHANGED <<seatVars, exceptEgl>>

\* a method of the constructed Egl object ran and left the thread in state t
EglMethod(name, t) ==
    /\ egl.state = "constructed"
    /\ eglCurrent' = t.current
    /\ calls' = t.calls
    /\ event' = [type |-> name, a |-> eglCurrent, b |-> 0]
    /\ UNCHANGED egl
    /\ UNCHANGED <<wmState, displayError, toplevel_states>>
    /\ UNCHANGED <<seatVars, exceptEgl>>

make_current(ok)          == EglMethod("make_current", MakeCurrent(EglThread, egl, ok))
clear_current(ok)         == EglMethod("clear_current", ClearCurrent(EglThread, egl, ok))
make_resource_current(ok) == EglMethod("make_resource_current", MakeResourceCurrent(EglThread, egl, ok))
make_texture_current(ok)  == EglMethod("make_texture_current", MakeTextureCurrent(EglThread, egl, ok))

\* Egl::swap_buffers
swap_buffers ==
    EglMethod("swap_buffers", Call(EglThread, <<"eglSwapBuffers", egl.egl_surface_>>))

\* Egl::~Egl: eglTerminate, eglReleaseThread (no context is current afterwards)
EglDtor ==
    /\ egl.state = "constructed"
    /\ egl' = [EglNull EXCEPT !.state = "destroyed"]
    /\ eglCurrent' = EGL_NO_CONTEXT
    /\ calls' = << <<"eglTerminate", egl.dpy_>>, <<"eglReleaseThread", 0>> >>
    /\ event' = [type |-> "Egl::~Egl", a |-> eglCurrent, b |-> 0]
    /\ UNCHANGED <<wmState, displayError, toplevel_states>>
    /\ UNCHANGED <<seatVars, exceptEgl>>

\* ================================================================== Cursor
kCursorSize == 24

\* the kind strings callers pass: the four Cursor::enable knows, and another
Kinds == <<"basic", "click", "text", "forbidden", "grab">>
CursorNames == {"left_ptr", "hand", "pirate"}

\* Cursor::enable, lines 358-369: the theme's name for a kind ("": none)
CursorNameOf(kind) ==
    IF kind = "basic" THEN "left_ptr"
    ELSE IF kind = "click" THEN "hand"
    ELSE IF kind = "text" THEN "left_ptr"
    ELSE IF kind = "forbidden" THEN "pirate"
    ELSE ""

\* What a loaded theme holds for a cursor name: no cursor of that name
\* ("none"), a cursor whose first image yields no buffer ("nobuffer"), or a
\* cursor with an image and its buffer ("image").
Themes == [CursorNames -> {"none", "nobuffer", "image"}]

\* the first image of a theme cursor: hot-spot, size, buffer (numbered by name)
ImageOf(name) ==
    LET n == IF name = "left_ptr" THEN 1 ELSE IF name = "hand" THEN 2 ELSE 3
    IN  [hotspot_x |-> n, hotspot_y |-> n, width |-> kCursorSize, height |-> kCursorSize,
         buffer |-> n]

\* no Cursor object
CursorNull == [state |-> "none", enable_ |-> FALSE, wl_pointer_ |-> 0, wl_surface_ |-> 0,
               theme_ |-> 0, images |-> [n \in CursorNames |-> "none"]]

\* the outcomes of a call that dereferences a null wl_cursor_theme: the process
\* is killed (-1), or the call carries on and answers false (0) or true (1)
UbOutcomes == {0 - 1, 0, 1}

\* the requests that set an empty cursor image (lines 349-352)
EmptyImageCalls(c) ==
    << <<"wl_pointer_set_cursor", 0>>, <<"wl_surface_damage", 0>>,
       <<"wl_surface_commit", c.wl_surface_>> >>

\* the requests that set a theme image (lines 379-387)
ThemeImageCalls(c, image) ==
    << <<"wl_pointer_set_cursor", image.hotspot_x>>, <<"wl_surface_attach", image.buffer>>,
       <<"wl_surface_damage", image.width>>, <<"wl_surface_commit", c.wl_surface_>> >>

\* Cursor::enable on the cursor c: [ret, calls], ret 1 for true, 0 for false.
\* With theme_ null, wl_cursor_theme_get_cursor dereferences it: ub is what
\* follows.
Enable(c, kind, ub) ==
    IF ~c.enable_ THEN [ret |-> 1, calls |-> EmptyImageCalls(c)]
    ELSE IF c.wl_pointer_ = 0 THEN [ret |-> 1, calls |-> <<>>]
    ELSE IF CursorNameOf(kind) = "" THEN [ret |-> 0, calls |-> <<>>]
    ELSE IF c.theme_ = 0
         THEN [ret |-> ub,
               calls |-> IF ub = 1 THEN ThemeImageCalls(c, ImageOf(CursorNameOf(kind))) ELSE <<>>]
    ELSE IF c.images[CursorNameOf(kind)] = "none" THEN [ret |-> 0, calls |-> <<>>]
    ELSE IF c.images[CursorNameOf(kind)] = "image" /\ c.wl_surface_ # 0
         THEN [ret |-> 1, calls |-> ThemeImageCalls(c, ImageOf(CursorNameOf(kind)))]
    ELSE [ret |-> 0, calls |-> <<>>]

\* Cursor::Cursor for the device of a Pointer (Pointer::Pointer has added its
\* listener to it: it is not null).  surface: what wl_compositor_create_surface
\* returns; theme: what wl_cursor_theme_load returns when enable is set, and
\* the indeterminate value of the member theme_ when it is not; images: the
\* contents of the theme loaded.
CursorCtor(enable, surface, theme, images) ==
    /\ cursor.state = "none"
    /\ (~enable \/ theme = 0) => images = CursorNull.images
    /\ cursor' = [state |-> "constructed", enable_ |-> enable, wl_pointer_ |-> 1,
                  wl_surface_ |-> surface, theme_ |-> theme, images |-> images]
    /\ calls' = << <<"wl_compositor_create_surface", surface>> >>
                 \o (IF enable THEN << <<"wl_cursor_theme_load", theme>> >> ELSE <<>>)
    /\ event' = [type |-> "Cursor::Cursor", a |-> IF enable THEN 1 ELSE 0, b |-> 0]
    /\ UNCHANGED <<wmState, displayError, toplevel_states>>
    /\ UNCHANGED <<seatVars, exceptCursor>>

\* Cursor::enable(device, Kinds[k]).  Without a surface the requests on it
\* (wl_surface_damage, wl_surface_commit) dereference null: the process is killed.
enable(k, ub) ==
    /\ cursor.state = "constructed"
    /\ LET r == Enable(cursor, Kinds[k], ub)
           killed == r.ret < 0 \/ (~cursor.enable_ /\ cursor.wl_surface_ = 0)
       IN  /\ event' = [type |-> "Cursor::enable", a |-> k, b |-> IF killed THEN 0 - 1 ELSE r.ret]
           /\ calls' = r.calls
           /\ cursor' = IF killed THEN [cursor EXCEPT !.state = "killed"] ELSE cursor
    /\ UNCHANGED <<wmState, displayError, toplevel_states>>
    /\ UNCHANGED <<seatVars, exceptCursor>>

\* ================================================================ Keyboard
\* Key repeat on the GLib main context.  g_timeout_add attaches a source with
\* a fresh id that fires every `interval` ms until its callback returns FALSE
\* or g_source_remove is given its id.
MaxSources == 5   \* g_timeout_add calls of one run

RepeatRates  == {0, 2}   \* wl_keyboard.repeat_info rate
RepeatDelays == {1}      \* wl_keyboard.repeat_info delay
\* the capability masks of a seat that has or has not a keyboard
KeyboardCaps == {0, WL_SEAT_CAPABILITY_KEYBOARD}
\* the seat whose Keyboard is followed
KeyboardSeat == 1

\* the state of the main context and of one Keyboard, threaded through a handler
KbState(s) == [kb |-> keyboards[s], timers |-> timers, next |-> nextSource,
               calls |-> <<>>]

\* g_timeout_add(interval, handle_repeat, data): the id it returns is stored
\* in key_timeout_id_
g_timeout_add(k, interval, data) ==
    [Call(k, <<"g_timeout_add", interval>>) EXCEPT
        !.timers = @ \cup {[id |-> k.next, interval |-> interval, data |-> data,
                            stale |-> FALSE]},
        !.kb.key_timeout_id_ = k.next,
        !.next = @ + 1]

\* g_source_remove(id)
g_source_remove(k, id) ==
    [Call(k, <<"g_source_remove", id>>) EXCEPT !.timers = {t \in @ : t.id # id}]

\* Keyboard::handle_repeat_info on the Keyboard at address data
RepeatInfo(k, data, rate, delay) ==
    LET k1 == g_timeout_add(k, delay, data)
        k2 == [k1 EXCEPT !.kb.key_repeat_rate_ = rate]
    IN  g_timeout_add(k2, delay, data)

\* handle_repeat that always returns TRUE
handle_repeat_returns_true(rate) == TRUE

\* Keyboard::handle_repeat: what it returns to the main context
handle_repeat_returns(rate) == rate # 0

\* Keyboard::handle_repeat run by the source t on a live Keyboard; a source
\* whose callback returns FALSE is removed
Repeat(k, t) ==
    LET rate == k.kb.key_repeat_rate_
        k1   == IF rate # 0 THEN g_timeout_add(k, rate, t.data)
                ELSE g_source_remove(k, k.kb.key_timeout_id_)
    IN  IF handle_repeat_returns(rate) THEN k1
        ELSE [k1 EXCEPT !.timers = {x \in @ : x.id # t.id}]

\* write a KbState back
SetKb(s, k) ==
    /\ keyboards' = [keyboards EXCEPT ![s] = k.kb]
    /\ timers' = k.timers
    /\ nextSource' = k.next
    /\ calls' = k.calls

\* wl_keyboard.repeat_info delivered to the seat's Keyboard
handle_repeat_info(s, rate, delay) ==
    /\ pc = "constructed"
    /\ seats[s].keyboard_ # 0
    /\ nextSource + 1 <= MaxSources
    /\ SetKb(s, RepeatInfo(KbState(s), seats[s].keyboard_, rate, delay))
    /\ event' = [type |-> "wl_keyboard.repeat_info", a |-> rate, b |-> delay]
    /\ UNCHANGED <<seats, delivered, liveHandlers>>
    /\ UNCHANGED <<wmState, displayError, toplevel_states, exceptKb>>

\* the main context fires the source with this id on a live Keyboard
handle_repeat(s, id) ==
    /\ pc = "constructed"
    /\ \E t \in timers :
          /\ t.id = id
          /\ ~t.stale
          /\ t.data = seats[s].keyboard_
          /\ keyboards[s].key_repeat_rate_ # 0 => nextSource <= MaxSources
          /\ SetKb(s, Repeat(KbState(s), t))
          /\ event' = [type |-> "handle_repeat", a |-> id, b |-> t.interval]
    /\ UNCHANGED <<seats, delivered, liveHandlers>>
    /\ UNCHANGED <<wmState, displayError, toplevel_states, exceptKb>>

\* what a handle_repeat on a destroyed Keyboard can do
StaleOutcomes == {"crash", "returns FALSE", "returns TRUE"}

\* The main context fires a source whose Keyboard was destroyed: handle_repeat
\* reads freed memory.  The process dies (and its sources with it), or the
\* callback reads a zero rate and returns FALSE, or it reads a non-zero rate
\* and returns TRUE.
handle_repeat_stale(id, ub) ==
    /\ pc = "constructed"
    /\ \E t \in timers :
          /\ t.id = id
          /\ t.stale
          /\ timers' = CASE ub = "crash" -> {}
                          [] ub = "returns FALSE" -> timers \ {t}
                          [] OTHER -> timers
          /\ event' = [type |-> "handle_repeat on a destroyed Keyboard", a |-> id,
                       b |-> t.interval]
    /\ pc' = IF ub = "crash" THEN "aborted" ELSE pc
    /\ calls' = <<>>
    /\ UNCHANGED <<keyboards, nextSource>>
    /\ UNCHANGED <<seats, delivered, liveHandlers>>
    /\ UNCHANGED <<shell_type_, wl_surface_, wl_callback_, windows_, xdg, result,
                   cbAlive, staleDestroy, displayError, toplevel_states, exceptKb>>

\* wl_seat.capabilities for a seat that gains or loses its keyboard
KeyboardCapabilities(s, caps) ==
    /\ pc = "constructed"
    /\ handle_capabilities(s, caps)

\* ================================================================== Output
\* what the server reports about an output
Geometries ==
    {[x |-> v, y |-> 0, physical_width |-> 300 + v, physical_height |-> 200,
      subpixel |-> 0, make |-> "make", model |-> "model", transform |-> 0] : v \in {0, 1}}
Modes == {[flags |-> 1, width |-> 640 + v, height |-> 480, refresh |-> 60000] : v \in {0, 1}}
Scales == {1, 2}
OutputNames == {"DP-1", "DP-2"}
OutputDescriptions == {"left", "right"}

\* a value-initialised member: zeroes, false, an empty optional (0), empty strings
NoGeometry ==
    [x |-> 0, y |-> 0, physical_width |-> 0, physical_height |-> 0,
     subpixel |-> 0, make |-> "", model |-> "", transform |-> 0]
NoMode == [flags |-> 0, width |-> 0, height |-> 0, refresh |-> 0]
NoScale == 0

OutputZero ==
    [geometry |-> NoGeometry, mode |-> NoMode, done |-> FALSE, scale |-> NoScale,
     name |-> "", description |-> ""]

\* Output::Output leaves output_ default-initialised: the optional and the
\* strings are empty, the plain members hold whatever the memory held
NewOutputs ==
    {[OutputZero EXCEPT !.geometry = g, !.mode = m, !.done = d] :
        g \in Geometries \cup {NoGeometry}, m \in Modes \cup {NoMode}, d \in BOOLEAN}

\* Output::handle_geometry: output_ is assigned as a whole; the members the
\* initialiser list leaves empty or omits (scale) are value-initialised
SetGeometryOf(o, g) ==
    [geometry |-> g, mode |-> NoMode, done |-> FALSE, scale |-> NoScale,
     name |-> "", description |-> ""]

OutputStep(o, type) ==
    /\ output' = o
    /\ event' = [type |-> type, a |-> 0, b |-> 0]
    /\ calls' = <<>>
    /\ UNCHANGED <<wmState, displayError, toplevel_states>>
    /\ UNCHANGED <<seatVars, exceptOutput>>

\* Output::handle_geometry
handle_geometry(g) == OutputStep(SetGeometryOf(output, g), "wl_output.geometry")
\* Output::handle_mode
handle_mode(m) == OutputStep([output EXCEPT !.mode = m], "wl_output.mode")
\* Output::handle_done
handle_done == OutputStep([output EXCEPT !.done = TRUE], "wl_output.done")
\* Output::handle_scale
handle_scale(sc) == OutputStep([output EXCEPT !.scale = sc], "wl_output.scale")
\* Output::handle_name
handle_output_name(n) == OutputStep([output EXCEPT !.name = n], "wl_output.name")
\* Output::handle_description
handle_description(d) == OutputStep([output EXCEPT !.description = d], "wl_output.description")

\* ---------------------------------------------------------- specifications
\* no toplevel configure was delivered yet, nothing is queued
ExtInit ==
    /\ toplevel_states = <<>>
    /\ queued = 0
    /\ egl = EglNull
    /\ eglCurrent = EGL_NO_CONTEXT
    /\ cursor = CursorNull
    /\ output = OutputZero
    /\ display = BaseDisplay
    /\ callbacks_ = <<>>
    /\ handles = BaseHandles
    /\ notified = BaseNotified

\* the state when Display::Display has returned and Window::Window is about to run
WmInit ==
    /\ pc = "Window"
    /\ shell_type_ \in ShellTypes
    /\ wl_surface_ = 0
    /\ wl_callback_ = 0
    /\ windows_ = <<>>
    /\ xdg = XdgNull
    /\ result = 0
    /\ cbAlive = {}
    /\ staleDestroy = FALSE
    /\ displayError = FALSE
    /\ event = NoEvent
    /\ calls = <<>>
    /\ ExtInit

Init == SeatInit /\ WmInit

XdgEvents ==
    \/ \E i \in Interfaces, v \in Versions : RegistryGlobal(i, v)
    \/ \E s \in Serials : Ping(s)
    \/ \E s \in Serials : handle_xdg_surface_configure(s)
    \/ handle_toplevel_close

Next ==
    \/ \E c \in CallbackIds : WindowCtor(c)
    \/ XdgWmCtor
    \/ WaitLoopExit
    \/ \E c \in CallbackIds : CtorStartFrames(c)
    \/ DispatchFails
    \/ XdgEvents
    \/ \E w \in CoarseDims, h \in CoarseDims, st \in CoarseStateArrays :
          handle_toplevel_configure(w, h, st)
    \/ \E cb \in CallbackIds, t \in Times, c \in CallbackIds : FrameDone(cb, t, c)
    \/ \E w \in WinDims, h \in WinDims, wt \in WindowTypes, d \in DrawCallbacks,
          ok \in BOOLEAN, c \in CallbackIds : create_window(w, h, wt, d, ok, c)
    \/ DtorWindowManager
    \/ DtorMembers
    \/ \E aborts \in BOOLEAN : DtorWindow(aborts)
    \/ \E aborts \in BOOLEAN : DtorDisplay(aborts)

Spec == Init /\ [][Next]_vars

\* the construction of a WindowManager and the events its dispatch calls handle
CtorNext ==
    \/ \E c \in CallbackIds : WindowCtor(c)
    \/ XdgWmCtor
    \/ WaitLoopExit
    \/ \E c \in CallbackIds : CtorStartFrames(c)
    \/ DispatchFails
    \/ XdgEvents
    \/ \E w \in CoarseDims, h \in CoarseDims, st \in CoarseStateArrays :
          handle_toplevel_configure(w, h, st)
    \/ \E cb \in CallbackIds, t \in Times, c \in CallbackIds : FrameDone(cb, t, c)

\* the constructing thread runs: the loop test and what follows the loop are
\* executed once they can be
CtorFairness ==
    /\ WF_vars(WaitLoopExit)
    /\ WF_vars(\E c \in CallbackIds : CtorStartFrames(c))

CtorFairSpec == Init /\ [][CtorNext]_vars /\ CtorFairness

\* XdgWm alone, under the events one or more wl_display_dispatch calls of the
\* constructor's wait loop hand it: from the state right after XdgWm::XdgWm in
\* an XDG WindowManager
XdgInit ==
    /\ SeatInit
    /\ pc = "wait_loop"
    /\ shell_type_ = "XDG"
    /\ wl_surface_ = 1
    /\ wl_callback_ = 1
    /\ windows_ = <<>>
    /\ xdg = XdgWmNew
    /\ result = 0
    /\ cbAlive = {1}
    /\ staleDestroy = FALSE
    /\ displayError = FALSE
    /\ event = [type |-> "XdgWm::XdgWm", a |-> 0, b |-> 0]
    /\ calls = << <<"wl_display_get_registry", 1>>, <<"wl_registry_add_listener", 1>> >>
    /\ ExtInit

XdgNext ==
    \/ XdgEvents
    \/ \E w \in Dims, h \in Dims, st \in StateArrays : handle_toplevel_configure(w, h, st)

XdgSpec == XdgInit /\ [][XdgNext]_vars

\* dispatch on a constructed WindowManager (shell type NONE: the two
\* start_frames of the constructor have run)
DispatchInit ==
    /\ SeatInit
    /\ pc = "constructed"
    /\ shell_type_ = "NONE"
    /\ wl_surface_ = 1
    /\ wl_callback_ = 1
    /\ windows_ = <<>>
    /\ xdg = XdgNull
    /\ result = 0
    /\ cbAlive = {1}
    /\ staleDestroy = FALSE
    /\ displayError = FALSE
    /\ event = [type |-> "WindowManager::WindowManager", a |-> 0, b |-> 0]
    /\ calls = << <<"wl_callback_destroy", 1>>, <<"draw_callback_", 0>>,
                  <<"wl_surface_frame", 1>>, <<"wl_callback_add_listener", 1>>,
                  <<"wl_surface_commit", 1>> >>
    /\ ExtInit

DispatchNext ==
    \/ \E t \in Timeouts, prot \in ProtOutcomes, fl \in FlushOutcomes,
          po \in PollOutcomes, rd \in ReadOutcomes : dispatch(t, prot, fl, po, rd)
    \/ \E t \in Timeouts, prot \in ProtOutcomes, fl \in FlushOutcomes,
          rd \in ReadOutcomes : poll_events(t, prot, fl, rd)
    \/ \E n \in 1..MaxQueue : OtherQueueRead(n)

DispatchSpec == DispatchInit /\ [][DispatchNext]_vars

\* one Egl object on the display of a constructed WindowManager
EglNext ==
    \/ \E init \in BOOLEAN, bind \in BOOLEAN, getConfigs \in BOOLEAN, choose \in BOOLEAN,
          sizes \in ConfigLists, failAt \in 0..MaxConfigs, ctx \in [1..3 -> BOOLEAN],
          mk \in BOOLEAN : EglCtor(init, bind, getConfigs, choose, sizes, failAt, ctx, mk)
    \/ \E ok \in BOOLEAN : make_current(ok)
    \/ \E ok \in BOOLEAN : clear_current(ok)
    \/ \E ok \in BOOLEAN : make_resource_current(ok)
    \/ \E ok \in BOOLEAN : make_texture_current(ok)
    \/ swap_buffers
    \/ EglDtor

EglSpec == DispatchInit /\ [][EglNext]_vars

\* one Cursor of a Pointer of a constructed WindowManager's seat
CursorNext ==
    \/ \E en \in BOOLEAN, surface \in {0, 1}, theme \in {0, 1}, images \in Themes :
          CursorCtor(en, surface, theme, images)
    \/ \E k \in DOMAIN Kinds, ub \in UbOutcomes : enable(k, ub)

CursorSpec == DispatchInit /\ [][CursorNext]_vars

\* one Display on its own: construction with its round trip, globals,
\* observers, destruction
DisplayInit ==
    /\ SeatInit
    /\ pc = "Display"
    /\ shell_type_ = "XDG"
    /\ wl_surface_ = 0
    /\ wl_callback_ = 0
    /\ windows_ = <<>>
    /\ xdg = XdgNull
    /\ result = 0
    /\ cbAlive = {}
    /\ staleDestroy = FALSE
    /\ displayError = FALSE
    /\ event = NoEvent
    /\ calls = <<>>
    /\ toplevel_states = <<>>
    /\ queued = 0
    /\ egl = EglNull
    /\ eglCurrent = EGL_NO_CONTEXT
    /\ cursor = CursorNull
    /\ output = OutputZero
    /\ display = DisplayNull
    /\ callbacks_ = <<>>
    /\ handles = {}
    /\ notified = <<>>

DisplayNext ==
    \/ \E ok \in BOOLEAN : DisplayCtor(ok)
    \/ RoundtripDone
    \/ \E i \in DisplayInterfaces : \E v \in AnnouncedVersions(i) :
          registry_handle_global(i, v)
    \/ \E cb \in ObserverIds : add_registrar_callback(cb)
    \/ \E aborts \in BOOLEAN : DisplayDtor(aborts)

DisplaySpec == DisplayInit /\ [][DisplayNext]_vars

\* the Keyboard of one seat of a constructed WindowManager
KeyboardNext ==
    \/ \E caps \in KeyboardCaps : KeyboardCapabilities(KeyboardSeat, caps)
    \/ \E rate \in RepeatRates, delay \in RepeatDelays :
          handle_repeat_info(KeyboardSeat, rate, delay)
    \/ \E id \in 1..MaxSources : handle_repeat(KeyboardSeat, id)
    \/ \E id \in 1..MaxSources, ub \in StaleOutcomes : handle_repeat_stale(id, ub)

KeyboardSpec == DispatchInit /\ [][KeyboardNext]_vars

\* the main context keeps being iterated: an armed source fires eventually
KeyboardFairness ==
    \A id \in 1..MaxSources :
        /\ WF_vars(handle_repeat(KeyboardSeat, id))
        /\ WF_vars(\E ub \in StaleOutcomes : handle_repeat_stale(id, ub))

KeyboardFairSpec == KeyboardSpec /\ KeyboardFairness

\* one Output of a constructed WindowManager, from its construction on
OutputInit ==
    /\ SeatInit
    /\ pc = "constructed"
    /\ shell_type_ = "NONE"
    /\ wl_surface_ = 1
    /\ wl_callback_ = 1
    /\ windows_ = <<>>
    /\ xdg = XdgNull
    /\ result = 0
    /\ cbAlive = {1}
    /\ staleDestroy = FALSE
    /\ displayError = FALSE
    /\ event = [type |-> "Output::Output", a |-> 0, b |-> 0]
    /\ calls = << <<"wl_output_add_listener", 1>> >>
    /\ toplevel_states = <<>>
    /\ queued = 0
    /\ egl = EglNull
    /\ eglCurrent = EGL_NO_CONTEXT
    /\ cursor = CursorNull
    /\ display = BaseDisplay
    /\ callbacks_ = <<>>
    /\ handles = BaseHandles
    /\ notified = BaseNotified
    /\ output \in NewOutputs

OutputNext ==
    \/ \E g \in Geometries : handle_geometry(g)
    \/ \E m \in Modes : handle_mode(m)
    \/ handle_done
    \/ \E sc \in Scales : handle_scale(sc)
    \/ \E n \in OutputNames : handle_output_name(n)
    \/ \E d \in OutputDescriptions : handle_description(d)

OutputSpec == OutputInit /\ [][OutputNext]_vars

SeatNext ==
    \/ \E s \in SeatIds, caps \in CapMasks : handle_capabilities(s, caps)
    \/ \E s \in SeatIds, n \in SeatNames : handle_name(s, n)

\* the seats of the Display of one (XDG) WindowManager
SeatSpecInit == SeatInit /\ WmInit /\ shell_type_ = "XDG"

SeatSpec == SeatSpecInit /\ [][SeatNext]_vars

\* ================================================================== claims
\* ---- C1 -----------------------------------------------------------------
HandlersOf(s) == {seats[s].pointer_, seats[s].keyboard_, seats[s].touch_} \ {0}

C1_HandlersMatchMask ==
    \A s \in SeatIds :
        LET obj  == seats[s]
            mask == IF delivered[s] = 0 - 1 THEN 0 ELSE delivered[s]
        IN  /\ obj.pointer_ # 0  <=> HasCap(mask, WL_SEAT_CAPABILITY_POINTER)
            /\ obj.keyboard_ # 0 <=> HasCap(mask, WL_SEAT_CAPABILITY_KEYBOARD)
            /\ obj.touch_ # 0    <=> HasCap(mask, WL_SEAT_CAPABILITY_TOUCH)
            /\ Cardinality(HandlersOf(s)) =
                 (IF obj.pointer_ # 0 THEN 1 ELSE 0) + (IF obj.keyboard_ # 0 THEN 1 ELSE 0)
                 + (IF obj.touch_ # 0 THEN 1 ELSE 0)

C1_NoReconstruction ==
    \A s \in SeatIds :
        /\ seats[s].pointer_ # 0  => seats'[s].pointer_ \in {0, seats[s].pointer_}
        /\ seats[s].keyboard_ # 0 => seats'[s].keyboard_ \in {0, seats[s].keyboard_}
        /\ seats[s].touch_ # 0    => seats'[s].touch_ \in {0, seats[s].touch_}

\* C1: after every capabilities event a Pointer (Keyboard, Touch) exists exactly
\* when its bit is set in the mask delivered last (none exists before the first
\* event), the live handler objects are exactly the ones the seats hold, and an
\* event never replaces a handler that exists by a newly constructed one.
C1_SeatHandlers ==
    /\ [](C1_HandlersMatchMask /\ liveHandlers = UNION {HandlersOf(s) : s \in SeatIds})
    /\ [][C1_NoReconstruction]_vars

\* a pointer constructed while a keyboard lived, kept by a later event that
\* withdrew the keyboard and asserted the pointer bit again
C1_Witness ==
    /\ delivered[1] = WL_SEAT_CAPABILITY_POINTER
    /\ seats[1].pointer_ = 2
    /\ seats[1].keyboard_ = 0

\* ---- C2 -----------------------------------------------------------------
\* C2: stop_frames with no frame callback outstanding destroys no callback
\* object: wl_callback_destroy is never called on a proxy that is not alive.
C2_StopFramesNoOp == ~staleDestroy

\* ---- C3 -----------------------------------------------------------------
\* the Window exists and stop_frames has not left it stopped
Framing == pc \in {"XdgWm", "wait_loop", "start_frames", "constructed"}

\* C3: at most one frame-callback object of the Window is alive, and one is
\* alive (the one the member wl_callback_ names) exactly while the Window
\* exists and has not been stopped by stop_frames.
C3_OneFrameCallback ==
    /\ Cardinality(cbAlive) <= 1
    /\ cbAlive # {} <=> Framing
    /\ cbAlive # {} => cbAlive = {wl_callback_}

\* stopped by the destructor after a window was created and frames were drawn
C3_Witness ==
    /\ pc = "~members"
    /\ Len(windows_) > 0
    /\ cbAlive = {}
    /\ wl_callback_ # 0

\* ---- C4 -----------------------------------------------------------------
\* the step just taken ran start_frames to its end
RanStartFrames ==
    \/ event.type \in {"Window::Window", "WindowManager::WindowManager"}
    \/ event.type = "create_window" /\ result # 0 - 1

C4_DrawOnceThenRearm ==
    RanStartFrames =>
        LET d == FirstCall(calls, "draw_callback_")
            f == FirstCall(calls, "wl_surface_frame")
        IN  /\ CountCalls(calls, "draw_callback_") = 1
            /\ calls[d] = <<"draw_callback_", 0>>
            /\ CountCalls(calls, "wl_surface_frame") = 1
            /\ d < f
            /\ \A i \in DOMAIN calls : calls[i][1] = "wl_callback_destroy" => i < d
            /\ calls[f] = <<"wl_surface_frame", wl_callback_>>
            /\ cbAlive = {wl_callback_}

C4_CancelsOutstanding ==
    (RanStartFrames' /\ wl_callback_ \in cbAlive) =>
        \E i \in DOMAIN calls' : calls'[i] = <<"wl_callback_destroy", wl_callback_>>

\* C4: a call of start_frames destroys the outstanding frame callback (if any),
\* then invokes the draw callback exactly once, with time 0, and then requests
\* the one frame callback that is pending when it returns.
C4_StartFrames == []C4_DrawOnceThenRearm /\ [][C4_CancelsOutstanding]_vars

\* create_window restarted the loop while a callback was outstanding
C4_Witness ==
    /\ event.type = "create_window"
    /\ result > 0
    /\ CountCalls(calls, "wl_callback_destroy") = 1
    /\ CountCalls(calls, "draw_callback_") = 1

\* ---- C5 -----------------------------------------------------------------
\* C5: with shell type XDG the constructor gets past its wait loop only with
\* wait_for_configure clear (on an XdgWm whose shell surface exists); with any
\* other shell type no XdgWm is created and the wait loop is never entered.
C5_ConstructorWaits ==
    /\ (shell_type_ = "XDG" /\ pc \in {"start_frames", "constructed"}) =>
           /\ xdg.exists
           /\ ~xdg.wait_for_configure_
           /\ xdg.xdg_surface_ # 0
    /\ (shell_type_ = "XDG" /\ pc = "wait_loop") => xdg.exists
    /\ shell_type_ # "XDG" => (~xdg.exists /\ pc \notin {"XdgWm", "wait_loop"})

\* an XDG WindowManager whose constructor has just returned
C5_Witness ==
    /\ shell_type_ = "XDG"
    /\ pc = "constructed"
    /\ event.type = "WindowManager::WindowManager"

\* ---- C6 -----------------------------------------------------------------
\* C6: with shell type XDG, until the first surface configure has been
\* acknowledged the base window's frame loop has not started: no draw callback
\* was invoked and no frame callback was requested on the base surface.
C6_NoFrameBeforeConfigure ==
    (/\ shell_type_ = "XDG"
     /\ pc \in {"Window", "XdgWm", "wait_loop"}
     /\ (~xdg.exists \/ xdg.wait_for_configure_)) =>
        /\ cbAlive = {}
        /\ wl_callback_ = 0
        /\ CountCalls(calls, "draw_callback_") = 0

\* ---- C7 -----------------------------------------------------------------
C7_AckWithSerial ==
    event.type = "xdg_surface.configure" =>
        /\ calls = << <<"xdg_surface_ack_configure", event.a>> >>
        /\ ~xdg.wait_for_configure_

C7_OnlyConfigureClears ==
    (xdg.wait_for_configure_ /\ ~xdg'.wait_for_configure_) =>
        event'.type = "xdg_surface.configure"

\* C7: an xdg_surface configure event is acknowledged with the serial it
\* delivered and leaves wait_for_configure clear, and no other step changes
\* wait_for_configure from true to false.
C7_SurfaceConfigure == []C7_AckWithSerial /\ [][C7_OnlyConfigureClears]_vars

\* the first configure, with the larger serial, handled inside the wait loop
C7_Witness ==
    /\ event.type = "xdg_surface.configure"
    /\ event.a = MaxSerial
    /\ pc = "wait_loop"
    /\ ~xdg.wait_for_configure_

\* ---- C8 -----------------------------------------------------------------
\* C8: the step that handles a ping sends exactly one request, the pong with
\* the ping's serial, and no step sends a pong except for the ping it handles.
C8_PingPong ==
    /\ event.type = "xdg_wm_base.ping" => calls = << <<"xdg_wm_base_pong", event.a>> >>
    /\ \A i \in DOMAIN calls :
          calls[i][1] = "xdg_wm_base_pong" =>
              (event.type = "xdg_wm_base.ping" /\ calls[i][2] = event.a)

\* a ping answered after the constructor has returned
C8_Witness ==
    /\ event.type = "xdg_wm_base.ping"
    /\ event.a = MaxSerial
    /\ pc = "constructed"
    /\ calls = << <<"xdg_wm_base_pong", MaxSerial>> >>

\* ---- C9 -----------------------------------------------------------------
C9_ZeroIsNoOp ==
    (event'.type = "xdg_toplevel.configure" /\ (event'.a = 0 \/ event'.b = 0)) =>
        xdg' = xdg

\* C9: a toplevel configure whose width or height is 0 changes nothing of the
\* XdgWm: geometry, nominal window size and the four flags keep their values.
C9_ZeroConfigureNoOp == [][C9_ZeroIsNoOp]_vars

\* a configure with width 0 and a nonzero height, after a valid configure that
\* set a geometry and flags
C9_Witness ==
    /\ event.type = "xdg_toplevel.configure"
    /\ event.a = 0
    /\ event.b = 2
    /\ xdg.geometry_ = [width |-> 1, height |-> 2]
    /\ xdg.window_size_ = [width |-> 2, height |-> 1]
    /\ xdg.fullscreen_
    /\ xdg.activated_

\* ---- C10 ----------------------------------------------------------------
C10_Appends ==
    (event'.type = "create_window" /\ result' # 0 - 1) =>
        IF event'.a = EGL
        THEN /\ Len(windows_') = Len(windows_) + 1
             /\ SubSeq(windows_', 1, Len(windows_)) = windows_
             /\ result' # 0
             /\ windows_'[Len(windows_')].id = result'
             /\ \A i \in 1..Len(windows_) : windows_[i].id # result'
             /\ CountCalls(calls', "wl_surface_frame") = 1
        ELSE /\ result' = 0
             /\ windows_' = windows_

\* C10: a create_window that returns, called with type EGL, appends one new
\* WindowEgl as the last element of windows_ (the earlier elements and their
\* order unchanged), restarts the frame loop and returns the pointer to the new
\* element; with another type it returns nullptr and leaves windows_ unchanged.
C10_CreateWindow == [][C10_Appends]_vars

\* the second EGL window, appended behind a first one of another size
C10_Witness ==
    /\ event.type = "create_window"
    /\ event.a = EGL
    /\ Len(windows_) = 2
    /\ result = windows_[2].id
    /\ windows_[1].width # windows_[2].width

\* ---- C11 ----------------------------------------------------------------
\* C11: the frame callback synthesized by a create_window that was given a
\* draw callback and constructed a window invokes that draw callback (with
\* timestamp 0).
C11_SuppliedDrawInvoked ==
    (event.type = "create_window" /\ event.b # 0 /\ result > 0) =>
        \E i \in DOMAIN calls : InvokedDraw(calls[i]) = event.b /\ calls[i][2] = 0

\* ---- C12 ----------------------------------------------------------------
\* what wl_display_flush and poll answered in the step just taken (0 - errno
\* for a failure)
FlushAnswer == calls[FirstCall(calls, "wl_display_flush")][2]
PollAnswer  == calls[FirstCall(calls, "poll")][2]
Polled      == FirstCall(calls, "poll") # 0

\* C12: a dispatch call returns a negative error code (minus the errno) when
\* wl_display_flush failed with an errno other than EAGAIN or when poll failed;
\* a flush failing with EAGAIN does not end the call (poll is reached), and
\* the call returns a non-negative count when poll timed out or reported no
\* POLLIN.
C12_DispatchReturn ==
    event.type = "dispatch" =>
        /\ (FlushAnswer < 0 /\ FlushAnswer # 0 - EAGAIN) => event.b = FlushAnswer
        /\ FlushAnswer = 0 - EAGAIN => Polled
        /\ (Polled /\ PollAnswer < 0) => event.b = PollAnswer
        /\ (Polled /\ PollAnswer >= 0 /\ ~HasCap(PollAnswer, POLLIN)) => event.b >= 0

\* timeout 0, flush answering EAGAIN, nothing to read: the events found queued
\* are counted
C12_Witness ==
    /\ event.type = "dispatch"
    /\ event.a = 0
    /\ FlushAnswer = 0 - EAGAIN
    /\ Polled /\ PollAnswer = 0
    /\ event.b = MaxQueue

\* ---- C13 ----------------------------------------------------------------
EglOps == {"make_current", "clear_current", "make_resource_current", "make_texture_current"}

\* the context an operation is asked to make current
Requested(op) ==
    CASE op = "make_current"          -> egl.context_
      [] op = "clear_current"         -> EGL_NO_CONTEXT
      [] op = "make_resource_current" -> egl.resource_context_
      [] op = "make_texture_current"  -> egl.texture_context_

\* the constructor left a config and three valid contexts
EglValid ==
    /\ egl.config_ # 0
    /\ egl.context_ # EGL_NO_CONTEXT
    /\ egl.resource_context_ # EGL_NO_CONTEXT
    /\ egl.texture_context_ # EGL_NO_CONTEXT

\* C13: on an Egl object with valid contexts, a make-current operation
\* switches the context (one eglMakeCurrent) exactly when the requested context
\* was not current before the call, and unless that eglMakeCurrent was refused
\* the requested context is current after the call.
C13_SwitchIffNotCurrent ==
    (event.type \in EglOps /\ EglValid) =>
        /\ CountCalls(calls, "eglMakeCurrent") =
              (IF event.a # Requested(event.type) THEN 1 ELSE 0)
        /\ (\A i \in DOMAIN calls : calls[i] = <<"eglMakeCurrent", eglCurrent>>)
              => eglCurrent = Requested(event.type)

\* ---- C14 ----------------------------------------------------------------
\* C14: an Egl constructor that completes normally has selected a config and
\* holds three valid contexts.
C14_ConstructedIsValid ==
    egl.state = "constructed" =>
        /\ egl.config_ # 0
        /\ egl.context_ # EGL_NO_CONTEXT
        /\ egl.resource_context_ # EGL_NO_CONTEXT
        /\ egl.texture_context_ # EGL_NO_CONTEXT

\* ---- C15 ----------------------------------------------------------------
\* the theme of the cursor has an image with a valid buffer for the name of kind k
HasImage(k) ==
    /\ CursorNameOf(Kinds[k]) # ""
    /\ cursor.theme_ # 0
    /\ cursor.images[CursorNameOf(Kinds[k])] = "image"

\* C15: (for a cursor that has its surface) enable on a cursor with rendering
\* disabled sets the empty image and returns true whatever the kind; with
\* rendering enabled it returns false and sends nothing exactly when the kind
\* is not one of the four, the theme has no image for its name or the image
\* has no buffer, and otherwise sets the theme image with its hot-spot,
\* attaches its buffer, commits and returns true.
C15_CursorEnable ==
    (event.type = "Cursor::enable" /\ cursor.wl_surface_ # 0) =>
        IF ~cursor.enable_
        THEN event.b = 1 /\ calls = EmptyImageCalls(cursor)
        ELSE IF HasImage(event.a)
             THEN /\ event.b = 1
                  /\ calls = ThemeImageCalls(cursor, ImageOf(CursorNameOf(Kinds[event.a])))
             ELSE event.b = 0 /\ calls = <<>>

\* ---- C16 ----------------------------------------------------------------
C16_Step ==
    /\ (xdg'.exists /\ ~xdg'.running_) =>
          (event'.type = "xdg_toplevel.close" \/ (xdg.exists /\ ~xdg.running_))
    /\ event'.type = "xdg_toplevel.close" => ~xdg'.running_
    /\ (xdg.exists /\ xdg'.exists /\ ~xdg.running_) => ~xdg'.running_

\* C16: the running flag of the XdgWm is true until the first toplevel-close
\* event and false from then on: a step leaves the flag false only if it
\* handles a close event or the flag was false already, a close event leaves
\* it false, and it never becomes true again.
C16_RunningUntilClose == [][C16_Step]_vars

\* ---- C17 ----------------------------------------------------------------
\* C17 as stated: every registered observer was invoked exactly once for every
\* global the Display discovered, in registration order.
C17_EveryGlobalEveryObserver ==
    display.state = "constructed" =>
        \A g \in DOMAIN notified : notified[g].observers = callbacks_

\* C17, amended: when the Display handles a global, every observer registered
\* by then is invoked exactly once for it, in registration order, after the
\* Display's own handling of the global (globals discovered before an observer
\* registered, those of the constructor's round trip among them, are not
\* replayed to it).
C17_ObserversAfterHandling ==
    event.type = "Display::registry_handle_global" =>
        LET k == Len(callbacks_)
            n == Len(calls)
        IN  /\ n >= k
            /\ \A i \in 1..k : calls[n - k + i] = <<"callback", callbacks_[i]>>
            /\ \A j \in 1..(n - k) : calls[j][1] # "callback"
            /\ \A g \in DOMAIN notified :
                  \E m \in 0..k : notified[g].observers = SubSeq(callbacks_, 1, m)

\* a seat global handled with two observers registered, after a global that
\* was discovered before either registered
C17_Witness ==
    /\ event.type = "Display::registry_handle_global"
    /\ Len(callbacks_) = 2
    /\ calls[1][1] = "wl_registry_bind"
    /\ calls[2] = <<"wl_seat_add_listener", event.a>>
    /\ notified[1].observers = <<>>

\* ---- C18 ----------------------------------------------------------------
\* C18: once the WindowManager, and with it the Display, is destroyed, every
\* native handle the Display acquired (display connection, registry,
\* compositor, subcompositor, shm, outputs, seats) has been released.
C18_AllHandlesReleased ==
    pc = "destroyed" => handles = {}

\* ---- C19 ----------------------------------------------------------------
\* C19: handling a delivered frame callback releases the fired callback, then
\* invokes the draw callback with the delivered timestamp, then requests a new
\* frame callback, then commits the surface; and whenever the window is
\* framing and control is back in the event loop, a frame callback is pending.
C19_FrameCycle ==
    /\ event.type = "wl_callback.done" =>
          /\ calls = << <<"wl_callback_destroy", event.a>>,
                        <<"draw_callback_", event.b>>,
                        <<"wl_surface_frame", wl_callback_>>,
                        <<"wl_callback_add_listener", wl_callback_>>,
                        <<"wl_surface_commit", wl_surface_>> >>
          /\ wl_callback_ \in cbAlive
    /\ (Framing /\ pc \in {"wait_loop", "constructed"}) => (wl_callback_ # 0 /\ wl_callback_ \in cbAlive)

\* a frame callback with a non-zero timestamp handled on a constructed
\* WindowManager, its successor pending
C19_Witness ==
    /\ event.type = "wl_callback.done"
    /\ event.b > 0
    /\ pc = "constructed"
    /\ wl_callback_ \in cbAlive
    /\ calls[2] = <<"draw_callback_", event.b>>

\* ---- C20 ----------------------------------------------------------------
\* C20: after a toplevel configure with non-zero width and height, each of the
\* flags fullscreen, maximized, resizing and activated is true exactly if its
\* state occurs in the state array of that event, whatever the flags were.
C20_FlagsFromArray ==
    (event.type = "xdg_toplevel.configure" /\ event.a # 0 /\ event.b # 0) =>
        /\ xdg.fullscreen_ = InArray(toplevel_states, XDG_TOPLEVEL_STATE_FULLSCREEN)
        /\ xdg.maximized_  = InArray(toplevel_states, XDG_TOPLEVEL_STATE_MAXIMIZED)
        /\ xdg.resize_     = InArray(toplevel_states, XDG_TOPLEVEL_STATE_RESIZING)
        /\ xdg.activated_  = InArray(toplevel_states, XDG_TOPLEVEL_STATE_ACTIVATED)

\* a configure whose array holds one of the four states and one the handler
\* does not know
C20_Witness ==
    /\ event.type = "xdg_toplevel.configure" /\ event.a # 0 /\ event.b # 0
    /\ Len(toplevel_states) = 2
    /\ InArray(toplevel_states, UnknownState)
    /\ xdg.activated_
    /\ ~xdg.fullscreen_ /\ ~xdg.maximized_ /\ ~xdg.resize_

\* ---- C21 ----------------------------------------------------------------
\* the step handled a toplevel configure with non-zero width and height
C21_Configured == event'.type = "xdg_toplevel.configure" /\ event'.a # 0 /\ event'.b # 0
C21_Size == [width |-> event'.a, height |-> event'.b]
C21_Free == ~xdg'.fullscreen_ /\ ~xdg'.maximized_
C21_Positive == event'.a > 0 /\ event'.b > 0

C21_AsStatedStep ==
    C21_Configured =>
        /\ xdg'.window_size_ = IF C21_Free THEN C21_Size ELSE xdg.window_size_
        /\ IF C21_Positive THEN xdg'.geometry_ = C21_Size
           ELSE xdg'.geometry_ \in {xdg.window_size_, xdg'.window_size_}

\* C21 as stated: on a toplevel configure with non-zero width and height the
\* nominal window size is overwritten with the delivered size exactly when
\* neither fullscreen nor maximized is set after the flags are recomputed; the
\* geometry is the delivered size when it is positive and the nominal window
\* size otherwise.
C21_AsStated == [][C21_AsStatedStep]_vars

C21_AmendedStep ==
    C21_Configured =>
        /\ xdg'.window_size_ =
              IF C21_Positive /\ C21_Free THEN C21_Size ELSE xdg.window_size_
        /\ xdg'.geometry_ =
              IF C21_Positive THEN C21_Size
              ELSE IF C21_Free THEN xdg.window_size_ ELSE xdg.geometry_

\* C21, amended: on a toplevel configure with non-zero width and height the
\* nominal window size is overwritten with the delivered size exactly when the
\* delivered width and height are both positive and neither fullscreen nor
\* maximized is set after the flags are recomputed; the geometry is the
\* delivered size when both are positive, and otherwise it is reset to the
\* nominal window size if neither flag is set and keeps its value if one is.
C21_Geometry == [][C21_AmendedStep]_vars

\* a configure with a negative width on a fullscreen window whose geometry
\* differs from its nominal size
C21_Witness ==
    /\ event.type = "xdg_toplevel.configure"
    /\ event.a < 0 /\ event.b > 0
    /\ xdg.fullscreen_
    /\ xdg.geometry_ = [width |-> 2, height |-> 2]
    /\ xdg.window_size_ = [width |-> 1, height |-> 1]

\* ---- C22 ----------------------------------------------------------------
\* the index of the last call of fn in a step's trace (0: none)
LastCall(s, fn) ==
    IF \E i \in DOMAIN s : s[i][1] = fn
    THEN CHOOSE i \in DOMAIN s : s[i][1] = fn /\ \A j \in DOMAIN s : s[j][1] = fn => j <= i
    ELSE 0

\* C22: a returning dispatch(timeout) or poll_events(timeout) has prepared the
\* read, then flushed, then (unless the flush failed) polled, has read events
\* only after a poll that reported the socket readable, and has dispatched
\* the pending events after reading.
C22_ProtocolOrder ==
    event.type \in {"dispatch", "poll_events"} =>
        LET p == LastCall(calls, "wl_display_prepare_read")
            f == LastCall(calls, "wl_display_flush")
            o == LastCall(calls, "poll")
            r == LastCall(calls, "wl_display_read_events")
        IN  /\ p > 0 /\ calls[p][2] = 0
            /\ p < f
            /\ ~FlushFailed(0 - calls[f][2]) => f < o
            /\ r > 0 => /\ o > 0 /\ o < r
                        /\ calls[o][2] > 0 /\ HasCap(calls[o][2], POLLIN)
                        /\ LastCall(calls, "wl_display_dispatch_pending") > r

\* ---- C28 ----------------------------------------------------------------
\* the calls of a step's trace equal to c
CountCall(s, c) == Cardinality({i \in DOMAIN s : s[i] = c})

\* C28: a returning dispatch or poll_events has made one successful
\* wl_display_prepare_read and, after it, exactly one wl_display_read_events or
\* one wl_display_cancel_read, never both and neither twice.
C28_ReadIntentionMatched ==
    event.type \in {"dispatch", "poll_events"} =>
        LET p == LastCall(calls, "wl_display_prepare_read")
        IN  /\ CountCall(calls, <<"wl_display_prepare_read", 0>>) = 1
            /\ calls[p][2] = 0
            /\ CountCalls(calls, "wl_display_read_events")
                  + CountCalls(calls, "wl_display_cancel_read") = 1
            /\ \A i \in DOMAIN calls :
                  calls[i][1] \in {"wl_display_read_events", "wl_display_cancel_read"} => p < i

\* a dispatch that found events queued, dispatched them, took the read
\* intention at the second attempt and gave it up when the poll timed out
C28_Witness ==
    /\ event.type = "dispatch"
    /\ event.b > 0
    /\ calls[2] = <<"wl_display_prepare_read", 0 - 1>>
    /\ CountCalls(calls, "wl_display_cancel_read") = 1
    /\ CountCall(calls, <<"poll", 0>>) = 1

\* ---- C23 ----------------------------------------------------------------
\* the sources armed for the live Keyboard of the seat
ArmedFor(s) == {t \in timers : ~t.stale /\ t.data = seats[s].keyboard_}

\* a step that armed a source: after repeat_info the source key_timeout_id_
\* names waits the advertised delay; after a firing with a non-zero rate it
\* waits the advertised rate
C23_Rearms ==
    nextSource' # nextSource =>
        LET kb == keyboards'[KeyboardSeat]
            armed == {t \in timers' : t.id = kb.key_timeout_id_ /\ ~t.stale}
        IN  /\ armed # {}
            /\ event'.type = "wl_keyboard.repeat_info" =>
                  /\ kb.key_repeat_rate_ = event'.a
                  /\ \A t \in armed : t.interval = event'.b
            /\ event'.type = "handle_repeat" =>
                  /\ kb.key_repeat_rate_ # 0
                  /\ \A t \in armed : t.interval = kb.key_repeat_rate_

\* the seat has a Keyboard whose advertised rate is zero
C23_RateZero ==
    seats[KeyboardSeat].keyboard_ # 0 /\ keyboards[KeyboardSeat].key_repeat_rate_ = 0

C24_AtMostOneTimer ==
    \A s \in SeatIds : Cardinality(ArmedFor(s)) <= 1

\* ---- C25 ----------------------------------------------------------------
\* C25: no armed repeat timer refers to a destroyed Keyboard, so no repeat
\* callback runs with a destroyed Keyboard as its argument.
C25_NoTimerOnDestroyed ==
    /\ \A t \in timers : ~t.stale
    /\ event.type # "handle_repeat on a destroyed Keyboard"

\* ---- C26 ----------------------------------------------------------------
\* C26: every Seat in the Display's seat map holds the compositor and the shm
\* the Display has bound, neither of them null, in whatever order the server
\* announced the three globals.
C26_SeatsHoldBoundGlobals ==
    (display.state = "constructed" /\ display.wl_compositor_ # 0 /\ display.wl_shm_ # 0) =>
        \A seat \in display.wl_seats_ :
            /\ seat.wl_compositor_ # 0 /\ seat.wl_compositor_ = display.wl_compositor_
            /\ seat.wl_shm_ # 0 /\ seat.wl_shm_ = display.wl_shm_

\* ---- C27 ----------------------------------------------------------------
C27_GeometryStep ==
    event'.type = "wl_output.geometry" =>
        /\ output'.mode = output.mode
        /\ output'.done = output.done
        /\ output'.scale = output.scale
        /\ output'.name = output.name
        /\ output'.description = output.description

\* C27: a geometry notification changes only the Output's geometry: the mode,
\* the done flag, the scale, the name and the description keep the values
\* earlier notifications gave them.
C27_GeometryOnly == [][C27_GeometryStep]_vars

\* ---- C29 ----------------------------------------------------------------
\* the wait loop is left only with wait_for_configure clear; with the flag set
\* it is not left, after a failed dispatch either
C29_OnlyExit ==
    (pc = "wait_loop" /\ pc' # "wait_loop") =>
        (~xdg.wait_for_configure_ /\ pc' = "start_frames")

\* a constructed XDG WindowManager has bound the shell base and handled a
\* surface configure
C29_CompletedOnlyIfConfigured ==
    (shell_type_ = "XDG" /\ pc = "constructed") =>
        (xdg.xdg_wm_base_ # 0 /\ xdg.xdg_surface_ # 0 /\ ~xdg.wait_for_configure_)

\* the connection failed while the loop was still waiting
C29_FailedWaiting == pc = "wait_loop" /\ displayError /\ xdg.wait_for_configure_

\* C29: the constructor's wait loop ends only when wait_for_configure is
\* clear: construction completes only if the shell base was advertised and a
\* surface configure handled, it does complete once a surface configure was
\* handled in the loop, and after a failed dispatch with the flag still set the
\* loop goes on for ever.
C29_WaitLoop ==
    /\ [][C29_OnlyExit]_vars
    /\ []C29_CompletedOnlyIfConfigured
    /\ (pc = "wait_loop" /\ event.type = "xdg_surface.configure") ~> (pc = "constructed")
    /\ [](C29_FailedWaiting => [](pc = "wait_loop"))

\* construction completed although the connection failed after the surface
\* configure
C29_Witness ==
    /\ shell_type_ = "XDG"
    /\ pc = "constructed"
    /\ event.type = "WindowManager::WindowManager"
    /\ displayError
    /\ ~xdg.wait_for_configure_

\* ---- C30 ----------------------------------------------------------------
\* C30: every window of the owned list is backed by a wl_surface of its own:
\* no two windows share one and none uses the WindowManager's base surface.
C30_OwnSurfacePerWindow ==
    /\ \A i \in DOMAIN windows_ : windows_[i].surface # wl_surface_
    /\ \A i, j \in DOMAIN windows_ : i # j => windows_[i].surface # windows_[j].surface
==========================================================================
